---- MODULE Spec2Model ----
(***************************************************************************)
(* A model of the Asteroids game of public/game.js: the Game object, its   *)
(* ship, bullets and asteroids, the keyboard handlers and the animation    *)
(* frame callback.                                                         *)
(*                                                                         *)
(* Numbers.  The program computes with IEEE doubles; the model computes    *)
(* with integers in fixed point:                                           *)
(*   time      in ticks of 1/TicksPerSecond s (all frame intervals of the  *)
(*             model are whole ticks, so every timer of the program is an  *)
(*             exact dyadic number and the doubles are exact as well),     *)
(*   positions in 1/SubPixel px, velocities in 1/SubPixel px/s,            *)
(*   angles    in 1/AngleUnit rad, cosines and sines in 1/TrigScale.       *)
(* A product with a fraction is rounded to the nearest unit (RoundDiv).    *)
(***************************************************************************)
EXTENDS Integers, Sequences, FiniteSets, TLC

\* ------------------------------------------------------------------ units
TicksPerSecond == 32
SubPixel == 32
AngleUnit == 32
TrigScale == 1000

\* a / b rounded to the nearest integer, halves away from zero (b > 0)
RoundDiv(a, b) ==
    IF a >= 0 THEN (2 * a + b) \div (2 * b) ELSE -((2 * (-a) + b) \div (2 * b))

\* n/d seconds in ticks, n pixels in position units
Seconds(n, d) == (n * TicksPerSecond) \div d
Px(n) == n * SubPixel

Abs(a) == IF a < 0 THEN -a ELSE a

\* F(x), with x evaluated once: the statements of a method run in sequence
\* as Then(Then(g, First), Second)
Then(x, F(_)) == CHOOSE r \in {F(v) : v \in {x}} : TRUE

\* the elements of a sequence
Range(seq) == {seq[i] : i \in DOMAIN seq}

\* -------------------------------------------------------------- constants
CanvasWidth == 800
CanvasHeight == 600

ThrustPower == 300
RotationSpeed == 5
MaxSpeed == 400
ShipRadius == 10
BulletRadius == 2
BulletSpeed == 600
StartLives == 5
FirstWaveSize == 5
MaxWaveSize == 7
WaveScoreStep == 1000
SafeSpawnDistance == 150

InvulnerableSeconds == 3
BulletLifetime == Seconds(3, 2)
ShootCooldown == Seconds(1, 4)
InvulnerableTime == Seconds(InvulnerableSeconds, 1)

Sizes == {"large", "medium", "small"}

\* Asteroid constructor: radius and speed by size
AsteroidRadius(size) ==
    IF size = "large" THEN 40 ELSE IF size = "medium" THEN 25 ELSE 15

AsteroidSpeed(size) ==
    IF size = "large" THEN 50 ELSE IF size = "medium" THEN 80 ELSE 120

\* ---------------------------------------------------------------- Vector2D
Vector2D(x, y) == [x |-> x, y |-> y]

Add(v, w) == Vector2D(v.x + w.x, v.y + w.y)

\* multiply(scalar) for the scalar num/den
Multiply(v, num, den) == Vector2D(RoundDiv(v.x * num, den), RoundDiv(v.y * num, den))

\* largest r with r * r <= n, by bisection on lo..hi
RECURSIVE ISqrtIn(_, _, _)
ISqrtIn(n, lo, hi) ==
    IF lo >= hi THEN lo
    ELSE Then((lo + hi + 1) \div 2,
              LAMBDA mid : IF mid * mid <= n THEN ISqrtIn(n, mid, hi)
                           ELSE ISqrtIn(n, lo, mid - 1))

\* magnitude(): the square root, rounded down to the unit
Magnitude(v) == ISqrtIn(v.x * v.x + v.y * v.y, 0, 46340)

\* Math.cos and Math.sin of the angles of 0, 1, ... 201 units (one turn),
\* in 1/TrigScale, rounded to the nearest
CosTable ==
    << 1000, 1000, 998, 996, 992, 988, 982, 976, 969, 961, 952, 941, 931,
       919, 906, 892, 878, 862, 846, 829, 811, 792, 773, 753, 732, 710, 688,
       665, 641, 617, 592, 566, 540, 514, 487, 459, 431, 403, 374, 345, 315,
       286, 255, 225, 195, 164, 133, 102, 71, 40, 8, -23, -54, -85, -116,
       -147, -178, -209, -239, -270, -300, -329, -359, -388, -416, -444,
       -472, -499, -526, -553, -578, -604, -628, -652, -676, -698, -720,
       -742, -762, -782, -801, -819, -837, -854, -870, -885, -899, -912,
       -924, -936, -946, -956, -965, -972, -979, -985, -990, -994, -997,
       -999, -1000, -1000, -999, -997, -994, -990, -985, -980, -973, -965,
       -957, -947, -936, -925, -913, -900, -885, -870, -855, -838, -821,
       -802, -783, -763, -743, -722, -700, -677, -654, -630, -605, -580,
       -554, -528, -501, -474, -446, -418, -389, -360, -331, -301, -271,
       -241, -211, -180, -149, -118, -87, -56, -25, 6, 38, 69, 100, 131, 162,
       193, 223, 254, 284, 313, 343, 372, 401, 429, 457, 485, 512, 539, 565,
       590, 615, 640, 663, 686, 709, 730, 751, 772, 791, 810, 828, 845, 861,
       877, 891, 905, 918, 930, 941, 951, 960, 968, 976, 982, 988, 992, 995,
       998, 999, 1000 >>

SinTable ==
    << 0, 31, 62, 94, 125, 156, 186, 217, 247, 278, 307, 337, 366, 395, 424,
       452, 479, 507, 533, 559, 585, 610, 635, 658, 682, 704, 726, 747, 768,
       787, 806, 824, 841, 858, 874, 888, 902, 915, 927, 939, 949, 958, 967,
       974, 981, 986, 991, 995, 997, 999, 1000, 1000, 999, 996, 993, 989,
       984, 978, 971, 963, 954, 944, 934, 922, 909, 896, 882, 866, 850, 833,
       816, 797, 778, 758, 737, 716, 694, 671, 647, 623, 598, 573, 547, 521,
       494, 467, 439, 410, 382, 353, 323, 293, 263, 233, 203, 172, 141, 110,
       79, 48, 17, -15, -46, -77, -108, -139, -170, -201, -231, -262, -292,
       -321, -351, -380, -409, -437, -465, -492, -519, -546, -572, -597,
       -622, -646, -669, -692, -714, -736, -757, -777, -796, -815, -832,
       -849, -865, -881, -895, -908, -921, -933, -944, -954, -962, -970,
       -978, -984, -989, -993, -996, -998, -1000, -1000, -999, -998, -995,
       -991, -987, -981, -975, -967, -959, -950, -939, -928, -916, -903,
       -889, -875, -859, -843, -825, -807, -788, -769, -748, -727, -706,
       -683, -660, -636, -612, -587, -561, -535, -508, -481, -453, -425,
       -397, -368, -339, -309, -279, -249, -219, -188, -158, -127, -96, -64,
       -33, -2 >>

Cos(a) == CosTable[Abs(a) + 1]
Sin(a) == IF a >= 0 THEN SinTable[a + 1] ELSE -SinTable[(-a) + 1]

\* new Vector2D(Math.cos(rotation), Math.sin(rotation))
Direction(rotation) == Vector2D(Cos(rotation), Sin(rotation))

\* ------------------------------------------------------------- GameObject
\* wrapPosition as a wrap that keeps the distance past the edge
WrapModulo(p) ==
    LET x1 == IF p.x < 0 THEN p.x + Px(CanvasWidth) ELSE p.x
        x2 == IF x1 > Px(CanvasWidth) THEN x1 - Px(CanvasWidth) ELSE x1
        y1 == IF p.y < 0 THEN p.y + Px(CanvasHeight) ELSE p.y
        y2 == IF y1 > Px(CanvasHeight) THEN y1 - Px(CanvasHeight) ELSE y1
    IN  Vector2D(x2, y2)

\* wrapPosition: four tests in sequence, x first
WrapPosition(p) ==
    LET x1 == IF p.x < 0 THEN Px(CanvasWidth) ELSE p.x
        x2 == IF x1 > Px(CanvasWidth) THEN 0 ELSE x1
        y1 == IF p.y < 0 THEN Px(CanvasHeight) ELSE p.y
        y2 == IF y1 > Px(CanvasHeight) THEN 0 ELSE y1
    IN  Vector2D(x2, y2)

\* GameObject.update: position + velocity * deltaTime, then wrapPosition
Move(position, velocity, dt) ==
    WrapPosition(Add(position, Multiply(velocity, dt, TicksPerSecond)))

\* sqrt(dx * dx + dy * dy) < limit, for a limit that is a whole number of
\* position units; a coordinate difference of limit or more decides it before
\* the squares are taken (the squares of the whole field do not fit 32 bits)
Within(p, q, limit) ==
    LET dx == p.x - q.x
        dy == p.y - q.y
    IN  /\ Abs(dx) < limit
        /\ Abs(dy) < limit
        /\ dx * dx + dy * dy < limit * limit

\* checkCollision with distance <= this.radius + other.radius
CheckCollisionTouching(p, pRadius, q, qRadius) ==
    (p.x - q.x) * (p.x - q.x) + (p.y - q.y) * (p.y - q.y)
       <= Px(pRadius + qRadius) * Px(pRadius + qRadius)

\* checkCollision(other): distance < this.radius + other.radius
CheckCollision(p, pRadius, q, qRadius) == Within(p, q, Px(pRadius + qRadius))

\* -------------------------------------------------------------------- Ship
\* new Ship(x, y)
Ship(x, y) ==
    [position |-> Vector2D(x, y), velocity |-> Vector2D(0, 0), rotation |-> 0,
     invulnerable |-> FALSE, invulnerableTime |-> 0]

\* Ship.thrust(forward, deltaTime): accelerate along the rotation (half as
\* much backwards), then scale the velocity down to maxSpeed
Thrust(s, forward, dt) ==
    LET thrust == Multiply(Direction(s.rotation),
                           ThrustPower * SubPixel * dt * (IF forward THEN 2 ELSE -1),
                           2 * TrigScale * TicksPerSecond)
        Limit(v) == IF v.x * v.x + v.y * v.y > Px(MaxSpeed) * Px(MaxSpeed)
                    THEN Multiply(v, Px(MaxSpeed), Magnitude(v)) ELSE v
    IN  [s EXCEPT !.velocity = Then(Add(s.velocity, thrust), Limit)]

\* Ship.rotate(direction, deltaTime)
Rotate(s, direction, dt) ==
    [s EXCEPT !.rotation =
        @ + (direction * RotationSpeed * AngleUnit * dt) \div TicksPerSecond]

\* Ship.update(deltaTime): move, damp the velocity, run the invulnerability timer
ShipUpdate(s, dt) ==
    LET Timer(m) == IF m.invulnerable
                    THEN [m EXCEPT !.invulnerableTime = @ - dt,
                                   !.invulnerable = ~(m.invulnerableTime - dt <= 0)]
                    ELSE m
    IN  Then([s EXCEPT !.position = Move(s.position, s.velocity, dt),
                       !.velocity = Multiply(s.velocity, 99, 100)], Timer)

\* respawn() without its line this.invulnerable = true
RespawnVulnerable(s, x, y) ==
    [s EXCEPT !.position = Vector2D(x, y), !.velocity = Vector2D(0, 0),
              !.rotation = 0, !.invulnerableTime = InvulnerableTime]

\* respawn() without its line this.velocity = new Vector2D(0, 0)
RespawnMoving(s, x, y) ==
    [s EXCEPT !.position = Vector2D(x, y), !.rotation = 0, !.invulnerable = TRUE,
              !.invulnerableTime = InvulnerableTime]

\* Ship.respawn(x, y)
Respawn(s, x, y) ==
    [s EXCEPT !.position = Vector2D(x, y), !.velocity = Vector2D(0, 0),
              !.rotation = 0, !.invulnerable = TRUE,
              !.invulnerableTime = InvulnerableTime]

\* ------------------------------------------------------------------ Bullet
\* new Bullet(x, y, rotation)
Bullet(position, rotation) ==
    [position |-> position,
     velocity |-> Multiply(Direction(rotation), BulletSpeed * SubPixel, TrigScale),
     lifetime |-> BulletLifetime, active |-> TRUE]

\* update(deltaTime) of a bullet without the test of its lifetime
BulletUpdateStaysActive(b, dt) ==
    [b EXCEPT !.position = Move(b.position, b.velocity, dt),
              !.lifetime = @ - dt]
\* Bullet.update(deltaTime)
BulletUpdate(b, dt) ==
    [b EXCEPT !.position = Move(b.position, b.velocity, dt),
              !.lifetime = @ - dt,
              !.active = IF b.lifetime - dt <= 0 THEN FALSE ELSE b.active]

\* ---------------------------------------------------------------- Asteroid
\* new Asteroid(x, y, size); dir is (cos, sin) of the random angle the
\* constructor draws.  The fields used only by draw (rotation, rotationSpeed,
\* vertices) are left out.
Asteroid(position, size, dir) ==
    [position |-> position, size |-> size,
     velocity |-> Multiply(dir, AsteroidSpeed(size) * SubPixel, TrigScale)]

\* Asteroid.update(deltaTime)
AsteroidUpdate(a, dt) == [a EXCEPT !.position = Move(a.position, a.velocity, dt)]

\* split() with a loop that runs once
SplitOnce(a, dir1, dir2) ==
    IF a.size = "small" THEN << >>
    ELSE LET newSize == IF a.size = "large" THEN "medium" ELSE "small"
         IN  << Asteroid(a.position, newSize, dir1) >>

\* Asteroid.split(): the fragments, given the random directions of the two
\* constructor calls
Split(a, dir1, dir2) ==
    IF a.size = "small" THEN << >>
    ELSE LET newSize == IF a.size = "large" THEN "medium" ELSE "small"
         IN  << Asteroid(a.position, newSize, dir1), Asteroid(a.position, newSize, dir2) >>

\* the points with the sizes in the opposite order
PointsSwapped(size) == IF size = "small" THEN 20 ELSE IF size = "medium" THEN 50 ELSE 100

\* the points without the test of 'medium'
PointsNoMedium(size) == IF size = "large" THEN 20 ELSE 100

\* points of checkCollisions for a destroyed asteroid
Points(size) == IF size = "large" THEN 20 ELSE IF size = "medium" THEN 50 ELSE 100

\* -------------------------------------------------------------------- Game
VARIABLES
    ship, bullets, asteroids,       \* Game.ship, Game.bullets, Game.asteroids
    score, lives, gameOver,         \* Game.score, Game.lives, Game.gameOver
    canShoot, shootCooldown,        \* Game.canShoot, Game.shootCooldown (ticks)
    keys,                           \* Game.keys, an absent entry being FALSE
    lastTime,                       \* Game.lastTime (ticks)
    scoreText, livesText,           \* textContent of #score and #lives
    finalScoreText,                 \* textContent of #finalScore
    screenHidden,                   \* #gameOverScreen has the class 'hidden'
    started,                        \* game.start() has run
    simTime,                        \* history: sum of deltaTime of the executed updates
    lastLoss,                       \* history: simTime of the last life lost in this game, or -1
    press,                          \* history: the current or last press of the spacebar
    obs,                            \* history: what the last gameLoop call did
    resets, keyEvents, skipped,     \* history: counts of reset() calls after
                                    \* construction, of key events, of dropped frames
    waves,                          \* history: the sizes of the waves of this game
    pending,                        \* the animation frames requested and not yet run
    uiManager,                      \* UIManager: showControls, debugMode, paused,
                                    \* messages, messageHistory
    hud,                            \* HUD: modeChangeFlash (ms)
    gameOverScreen,                 \* GameOverScreen: isVisible, showTime (ms), statistics
    gameState,                      \* the gameState object the UI was constructed with
    listeners,                      \* the keydown listeners registered on document
    uiObs,                          \* history: what the last call into the UI did
    uiHist,                         \* history: counts of calls, the values seen by the
                                    \* last update, gameState when the screen was shown
    calc                            \* history: the last call of a method that changes
                                    \* no field, with its arguments and its result

progVars ==
    << ship, bullets, asteroids, score, lives, gameOver, canShoot, shootCooldown,
       keys, lastTime, scoreText, livesText, finalScoreText, screenHidden, started,
       pending >>

vars ==
    << ship, bullets, asteroids, score, lives, gameOver, canShoot, shootCooldown,
       keys, lastTime, scoreText, livesText, finalScoreText, screenHidden, started,
       simTime, lastLoss, press, obs, resets, keyEvents, skipped, waves, pending,
       uiManager, hud, gameOverScreen, gameState, listeners, uiObs, uiHist, calc >>

uiVars == << uiManager, hud, gameOverScreen, gameState, listeners, uiObs, uiHist >>

gameVars ==
    << ship, bullets, asteroids, score, lives, gameOver, canShoot, shootCooldown,
       keys, lastTime, scoreText, livesText, finalScoreText, screenHidden, started,
       simTime, lastLoss, press, obs, resets, keyEvents, skipped, waves, pending >>

\* e.key of the keyboard events, and the entries of Game.keys
EventKeys == {"w", "a", "s", "d", " ", "r", "R", "x"}
KeyNames == {"w", "a", "s", "d", " ", "r", "x"}

\* String.prototype.toLowerCase on the keys of EventKeys
ToLowerCase(k) == IF k = "R" THEN "r" ELSE k

\* the text an element shows after textContent = n
Text(n) == ToString(n)

\* ------------------------------------------------------- Math.random draws
\* (cos, sin) of some angles Math.random() * 2 pi can give, in 1/TrigScale
East == Vector2D(1000, 0)
West == Vector2D(-1000, 0)
SouthEast == Vector2D(600, 800)
NorthWest == Vector2D(-800, -600)

\* one candidate of the do-while loop of spawnAsteroids, with the angle the
\* Asteroid constructor draws if the candidate is taken
Candidate(x, y, dir) == [position |-> Vector2D(Px(x), Px(y)), dir |-> dir]

\* the sequences of candidates that stand for the random numbers of one call
\* of spawnAsteroids
SpawnStreams ==
    { << Candidate(550, 300, West), Candidate(700, 300, West),
         Candidate(420, 310, East), Candidate(10, 300, East),
         Candidate(150, 300, West), Candidate(250, 300, West),
         Candidate(400, 100, SouthEast), Candidate(640, 480, NorthWest) >>,
      << Candidate(560, 300, East), Candidate(300, 420, East),
         Candidate(400, 500, West), Candidate(330, 250, West),
         Candidate(120, 80, SouthEast), Candidate(700, 520, NorthWest),
         Candidate(620, 300, West), Candidate(40, 560, SouthEast) >> }

\* the directions of the fragments of the hits of one checkCollisions pass,
\* in the order the Asteroid constructor is called
FragmentStreams ==
    { << East, West >>, << SouthEast, NorthWest >>, << West, SouthEast >> }

\* spawnAsteroids with a loop that takes its first candidate
TooCloseNever(c, shipPosition) == FALSE

\* the while condition of spawnAsteroids: the candidate is closer than 150
TooClose(c, shipPosition) == Within(c.position, shipPosition, Px(SafeSpawnDistance))

\* spawnAsteroids(count), drawing candidates from stream[i], stream[i + 1], ...
RECURSIVE SpawnAsteroids(_, _, _, _, _)
SpawnAsteroids(list, count, shipPosition, stream, i) ==
    IF count = 0 THEN list
    ELSE IF TooClose(stream[i], shipPosition)
         THEN SpawnAsteroids(list, count, shipPosition, stream, i + 1)
         ELSE SpawnAsteroids(Append(list, Asteroid(stream[i].position, "large", stream[i].dir)),
                             count - 1, shipPosition, stream, i + 1)

\* the stream holds enough candidates for a wave of count asteroids
Provides(stream, count, shipPosition) ==
    Cardinality({i \in DOMAIN stream : ~TooClose(stream[i], shipPosition)}) >= count

\* ----------------------------------------------------- the Game as a record
\* The methods of Game are operators on a record g of the fields they read
\* and write (the elements of the page included), so that a handler is one
\* expression.  The fields fired .. spawned are not fields of Game: they note
\* what an update did (touched and vulnerable: the asteroids the ship
\* overlaps and the negation of ship.invulnerable when checkCollisions is
\* called; hits: the asteroids destroyed, in order; struck: the asteroids the
\* ship overlaps after the bullets' loop).
Game ==
    [ship |-> ship, bullets |-> bullets, asteroids |-> asteroids, score |-> score,
     lives |-> lives, gameOver |-> gameOver, canShoot |-> canShoot,
     shootCooldown |-> shootCooldown, keys |-> keys, scoreText |-> scoreText,
     livesText |-> livesText, finalScoreText |-> finalScoreText,
     screenHidden |-> screenHidden,
     fired |-> FALSE, shot |-> << >>, shooter |-> << >>, touched |-> 0,
     vulnerable |-> FALSE, hits |-> << >>, struck |-> 0, lifeLost |-> FALSE,
     spawned |-> 0]

\* this.x = g.x for every field x of Game
Becomes(g) ==
    /\ ship' = g.ship
    /\ bullets' = g.bullets
    /\ asteroids' = g.asteroids
    /\ score' = g.score
    /\ lives' = g.lives
    /\ gameOver' = g.gameOver
    /\ canShoot' = g.canShoot
    /\ shootCooldown' = g.shootCooldown
    /\ keys' = g.keys
    /\ scoreText' = g.scoreText
    /\ livesText' = g.livesText
    /\ finalScoreText' = g.finalScoreText
    /\ screenHidden' = g.screenHidden

\* Game.updateUI()
UpdateUI(g) == [g EXCEPT !.scoreText = Text(g.score), !.livesText = Text(g.lives)]

\* endGame() without its last line: the screen keeps the class 'hidden'
EndGameHidden(g) == [g EXCEPT !.gameOver = TRUE, !.finalScoreText = Text(g.score)]

\* Game.endGame()
EndGame(g) ==
    [g EXCEPT !.gameOver = TRUE, !.finalScoreText = Text(g.score), !.screenHidden = FALSE]

\* reset() without its line this.score = 0
ResetKeepsScore(g, stream) ==
    LET Fields(h) ==
            [h EXCEPT !.ship = Ship(Px(CanvasWidth) \div 2, Px(CanvasHeight) \div 2),
                      !.bullets = << >>, !.asteroids = << >>,
                      !.lives = StartLives, !.gameOver = FALSE, !.canShoot = TRUE,
                      !.shootCooldown = 0]
        Spawn(h) ==
            [h EXCEPT !.asteroids = SpawnAsteroids(h.asteroids, FirstWaveSize,
                                                   h.ship.position, stream, 1)]
        Hide(h) == [h EXCEPT !.screenHidden = TRUE]
    IN  Then(Then(Then(Then(g, Fields), Spawn), UpdateUI), Hide)

\* Game.reset(), the random numbers of spawnAsteroids given by stream
Reset(g, stream) ==
    LET Fields(h) ==
            [h EXCEPT !.ship = Ship(Px(CanvasWidth) \div 2, Px(CanvasHeight) \div 2),
                      !.bullets = << >>, !.asteroids = << >>, !.score = 0,
                      !.lives = StartLives, !.gameOver = FALSE, !.canShoot = TRUE,
                      !.shootCooldown = 0]
        Spawn(h) ==
            [h EXCEPT !.asteroids = SpawnAsteroids(h.asteroids, FirstWaveSize,
                                                   h.ship.position, stream, 1)]
        Hide(h) == [h EXCEPT !.screenHidden = TRUE]
    IN  Then(Then(Then(Then(g, Fields), Spawn), UpdateUI), Hide)

\* Game.shoot()
Shoot(g) ==
    [g EXCEPT !.bullets = Append(@, Bullet(g.ship.position, g.ship.rotation)),
              !.fired = TRUE,
              !.shot = << Bullet(g.ship.position, g.ship.rotation) >>,
              !.shooter = << g.ship >>]

\* handleInput(deltaTime) without the line this.shootCooldown = 0.25
HandleInputNoCooldown(g, dt) ==
    LET Forward(h) == IF h.keys["w"] THEN [h EXCEPT !.ship = Thrust(@, TRUE, dt)] ELSE h
        Backward(h) == IF h.keys["s"] THEN [h EXCEPT !.ship = Thrust(@, FALSE, dt)] ELSE h
        Left(h) == IF h.keys["a"] THEN [h EXCEPT !.ship = Rotate(@, -1, dt)] ELSE h
        Right(h) == IF h.keys["d"] THEN [h EXCEPT !.ship = Rotate(@, 1, dt)] ELSE h
        Fire(h) == IF h.keys[" "] /\ h.canShoot
                   THEN [Shoot(h) EXCEPT !.canShoot = FALSE]
                   ELSE h
        Rearm(h) == IF ~h.keys[" "] THEN [h EXCEPT !.canShoot = TRUE] ELSE h
        Cool(h) == IF h.shootCooldown > 0
                   THEN [h EXCEPT !.shootCooldown = @ - dt,
                                  !.canShoot = IF h.shootCooldown - dt <= 0 THEN TRUE ELSE @]
                   ELSE h
    IN  IF g.gameOver THEN g
        ELSE Then(Then(Then(Then(Then(Then(Then(g, Forward), Backward), Left), Right),
                            Fire), Rearm), Cool)
\* Game.handleInput(deltaTime)
HandleInput(g, dt) ==
    LET Forward(h) == IF h.keys["w"] THEN [h EXCEPT !.ship = Thrust(@, TRUE, dt)] ELSE h
        Backward(h) == IF h.keys["s"] THEN [h EXCEPT !.ship = Thrust(@, FALSE, dt)] ELSE h
        Left(h) == IF h.keys["a"] THEN [h EXCEPT !.ship = Rotate(@, -1, dt)] ELSE h
        Right(h) == IF h.keys["d"] THEN [h EXCEPT !.ship = Rotate(@, 1, dt)] ELSE h
        Fire(h) == IF h.keys[" "] /\ h.canShoot
                   THEN [Shoot(h) EXCEPT !.canShoot = FALSE, !.shootCooldown = ShootCooldown]
                   ELSE h
        Rearm(h) == IF ~h.keys[" "] THEN [h EXCEPT !.canShoot = TRUE] ELSE h
        Cool(h) == IF h.shootCooldown > 0
                   THEN [h EXCEPT !.shootCooldown = @ - dt,
                                  !.canShoot = IF h.shootCooldown - dt <= 0 THEN TRUE ELSE @]
                   ELSE h
    IN  IF g.gameOver THEN g
        ELSE Then(Then(Then(Then(Then(Then(Then(g, Forward), Backward), Left), Right),
                            Fire), Rearm), Cool)

\* Array.prototype.splice(i, 1), indices from 1
Splice(seq, i) == SubSeq(seq, 1, i - 1) \o SubSeq(seq, i + 1, Len(seq))

\* the body of the if of checkCollisions without its call of updateUI
BulletHitSilent(g, i, j, dirs) ==
    LET asteroid == g.asteroids[j]
        n == 2 * Len(g.hits)
        newAsteroids == Split(asteroid, dirs[(n % Len(dirs)) + 1],
                              dirs[((n + 1) % Len(dirs)) + 1])
    IN  [g EXCEPT !.bullets = Splice(@, i),
                  !.asteroids = Splice(@, j) \o newAsteroids,
                  !.score = @ + Points(asteroid.size),
                  !.hits = Append(@, [size |-> asteroid.size,
                                      position |-> asteroid.position,
                                      fragments |-> newAsteroids])]

\* the body of the if of checkCollisions without its statement this.score +=
BulletHitNoScore(g, i, j, dirs) ==
    LET asteroid == g.asteroids[j]
        n == 2 * Len(g.hits)
        newAsteroids == Split(asteroid, dirs[(n % Len(dirs)) + 1],
                              dirs[((n + 1) % Len(dirs)) + 1])
    IN  UpdateUI([g EXCEPT !.bullets = Splice(@, i),
                           !.asteroids = Splice(@, j) \o newAsteroids,
                           !.hits = Append(@, [size |-> asteroid.size,
                                               position |-> asteroid.position,
                                               fragments |-> newAsteroids])])

\* the body of the if of checkCollisions: bullet i has hit asteroid j; dirs
\* gives the directions that the constructors of the fragments draw
BulletHit(g, i, j, dirs) ==
    LET asteroid == g.asteroids[j]
        n == 2 * Len(g.hits)
        newAsteroids == Split(asteroid, dirs[(n % Len(dirs)) + 1],
                              dirs[((n + 1) % Len(dirs)) + 1])
    IN  UpdateUI([g EXCEPT !.bullets = Splice(@, i),
                           !.asteroids = Splice(@, j) \o newAsteroids,
                           !.score = @ + Points(asteroid.size),
                           !.hits = Append(@, [size |-> asteroid.size,
                                               position |-> asteroid.position,
                                               fragments |-> newAsteroids])])

RECURSIVE BulletLoop(_, _, _, _)
RECURSIVE BulletLoopKeepsBullet(_, _, _, _)
\* the loops with a hit that leaves its bullet in the array
BulletLoopKeepsBullet(g, i, j, dirs) ==
    IF i < 1 THEN g
    ELSE IF j < 1 THEN BulletLoopKeepsBullet(g, i - 1, Len(g.asteroids), dirs)
    ELSE IF CheckCollision(g.bullets[i].position, BulletRadius,
                           g.asteroids[j].position, AsteroidRadius(g.asteroids[j].size))
         THEN Then(Then(g, LAMBDA h : [BulletHit(h, i, j, dirs) EXCEPT !.bullets = h.bullets]),
                   LAMBDA h : BulletLoopKeepsBullet(h, i - 1, Len(h.asteroids), dirs))
         ELSE BulletLoopKeepsBullet(g, i, j - 1, dirs)
\* the two nested loops of checkCollisions, at bullet i and asteroid j (both
\* count down; a hit ends the inner loop)
BulletLoop(g, i, j, dirs) ==
    IF i < 1 THEN g
    ELSE IF j < 1 THEN BulletLoop(g, i - 1, Len(g.asteroids), dirs)
    ELSE IF CheckCollision(g.bullets[i].position, BulletRadius,
                           g.asteroids[j].position, AsteroidRadius(g.asteroids[j].size))
         THEN Then(Then(g, LAMBDA h : BulletHit(h, i, j, dirs)),
                   LAMBDA h : BulletLoop(h, i - 1, Len(h.asteroids), dirs))
         ELSE BulletLoop(g, i, j - 1, dirs)

\* the asteroids (indices) the ship overlaps
Touching(g) ==
    {k \in DOMAIN g.asteroids :
        CheckCollision(g.ship.position, ShipRadius,
                       g.asteroids[k].position, AsteroidRadius(g.asteroids[k].size))}

\* the last loop of checkCollisions without its break: every asteroid the
\* ship overlaps costs a life
ShipLoopEach(g) ==
    LET Lose(h) == [h EXCEPT !.lives = @ - Cardinality(Touching(g)), !.lifeLost = TRUE]
        Over(h) == IF h.lives <= 0 THEN EndGame(h)
                   ELSE [h EXCEPT !.ship = Respawn(@, Px(CanvasWidth) \div 2,
                                                      Px(CanvasHeight) \div 2)]
    IN  IF g.ship.invulnerable \/ Touching(g) = {} THEN g
        ELSE Then(Then(Then(g, Lose), UpdateUI), Over)

\* the last loop of checkCollisions: the first asteroid the ship overlaps
\* costs a life and ends the loop
ShipLoop(g) ==
    LET Lose(h) == [h EXCEPT !.lives = @ - 1, !.lifeLost = TRUE]
        Over(h) == IF h.lives <= 0 THEN EndGame(h)
                   ELSE [h EXCEPT !.ship = Respawn(@, Px(CanvasWidth) \div 2,
                                                      Px(CanvasHeight) \div 2)]
    IN  IF g.ship.invulnerable \/ Touching(g) = {} THEN g
        ELSE Then(Then(Then(g, Lose), UpdateUI), Over)

\* Game.checkCollisions(): the bullets first, then the ship; struck notes how
\* many asteroids the ship overlaps when its loop starts
CheckCollisions(g, dirs) ==
    Then(Then(Then(g, LAMBDA h : BulletLoop(h, Len(h.bullets), Len(h.asteroids), dirs)),
              LAMBDA h : [h EXCEPT !.struck = Cardinality(Touching(h))]),
         ShipLoop)

\* the size of a new wave without the score
WaveSizeFixed(points) == FirstWaveSize

\* the size of a new wave
WaveSize(points) ==
    IF FirstWaveSize + (points \div WaveScoreStep) < MaxWaveSize
    THEN FirstWaveSize + (points \div WaveScoreStep) ELSE MaxWaveSize

\* the end of Game.update(): a new wave when no asteroid is left
NewWave(g, stream) ==
    IF Len(g.asteroids) = 0
    THEN [g EXCEPT !.asteroids = SpawnAsteroids(<< >>, WaveSize(g.score),
                                                g.ship.position, stream, 1),
                   !.spawned = WaveSize(g.score)]
    ELSE g

\* Game.update(deltaTime) up to the call of checkCollisions
Advance(g, dt) ==
    LET Input(h) == HandleInput(h, dt)
        MoveShip(h) == [h EXCEPT !.ship = ShipUpdate(@, dt)]
        MoveBullets(h) ==
            [h EXCEPT !.bullets =
                SelectSeq([k \in DOMAIN h.bullets |-> BulletUpdate(h.bullets[k], dt)],
                          LAMBDA b : b.active)]
        MoveAsteroids(h) ==
            [h EXCEPT !.asteroids =
                [k \in DOMAIN h.asteroids |-> AsteroidUpdate(h.asteroids[k], dt)]]
        Notes(h) == [h EXCEPT !.touched = Cardinality(Touching(h)),
                              !.vulnerable = ~h.ship.invulnerable]
    IN  Then(Then(Then(Then(Then(g, Input), MoveShip), MoveBullets), MoveAsteroids), Notes)

\* update(deltaTime) without its first line
UpdateWhenOver(g, dt, dirs, stream) ==
    Then(Then(Then(g, LAMBDA h : Advance(h, dt)),
              LAMBDA h : CheckCollisions(h, dirs)),
         LAMBDA h : NewWave(h, stream))
\* update(deltaTime) with the test for a new wave before checkCollisions
UpdateSpawnsFirst(g, dt, dirs, stream) ==
    IF g.gameOver THEN g
    ELSE Then(Then(Then(g, LAMBDA h : Advance(h, dt)),
                   LAMBDA h : NewWave(h, stream)),
              LAMBDA h : CheckCollisions(h, dirs))
\* Game.update(deltaTime)
Update(g, dt, dirs, stream) ==
    IF g.gameOver THEN g
    ELSE Then(Then(Then(g, LAMBDA h : Advance(h, dt)),
                   LAMBDA h : CheckCollisions(h, dirs)),
              LAMBDA h : NewWave(h, stream))

\* some bullet overlaps some asteroid: checkCollisions will build fragments
AnyHit(g) ==
    \E i \in DOMAIN g.bullets, j \in DOMAIN g.asteroids :
        CheckCollision(g.bullets[i].position, BulletRadius,
                       g.asteroids[j].position, AsteroidRadius(g.asteroids[j].size))

\* the random numbers an update can draw: the directions of the fragments
\* when there is a hit, and the candidates of the new wave when there is one
FragmentDraws(g, dt) ==
    IF ~g.gameOver /\ Then(Then(g, LAMBDA h : Advance(h, dt)), AnyHit)
    THEN FragmentStreams ELSE {<< East, West >>}

SpawnDraws(g, dt, dirs) ==
    LET Waves(h) ==
            IF Len(h.asteroids) = 0
            THEN {stream \in SpawnStreams :
                     Provides(stream, WaveSize(h.score), h.ship.position)}
            ELSE {<< >>}
    IN  IF g.gameOver THEN {<< >>}
        ELSE Then(Then(Then(g, LAMBDA h : Advance(h, dt)),
                       LAMBDA h : CheckCollisions(h, dirs)), Waves)

\* ------------------------------------------------------------------ actions
Centre == Vector2D(Px(CanvasWidth) \div 2, Px(CanvasHeight) \div 2)

\* what a gameLoop call that ran no update leaves in obs
Idle ==
    [ran |-> FALSE, lives0 |-> 0, score0 |-> 0, loss0 |-> -1, fired |-> FALSE,
     shot |-> << >>, shooter |-> << >>, touched |-> 0, vulnerable |-> FALSE,
     hits |-> << >>, struck |-> 0, lifeLost |-> FALSE, spawned |-> 0]

\* press before the first press: held while the key is down, released once
\* it has gone up, settled once an update has run after that, shots the
\* bullets shot while it was down; last is the simulated time at the start
\* of the last update of this game that shot a bullet, -1 before the first;
\* auto says that the spacebar has been down ever since that update
NoPress ==
    [held |-> FALSE, released |-> FALSE, settled |-> FALSE, shots |-> 0, last |-> -1,
     auto |-> FALSE]

\* the Game before its constructor has called reset(): no field is set, the
\* page shows no text and the screen is not known to be hidden
Blank ==
    [ship |-> Ship(0, 0), bullets |-> << >>, asteroids |-> << >>, score |-> 0,
     lives |-> 0, gameOver |-> FALSE, canShoot |-> FALSE, shootCooldown |-> 0,
     keys |-> [k \in KeyNames |-> FALSE], scoreText |-> "", livesText |-> "",
     finalScoreText |-> "", screenHidden |-> FALSE,
     fired |-> FALSE, shot |-> << >>, shooter |-> << >>, touched |-> 0,
     vulnerable |-> FALSE, hits |-> << >>, struck |-> 0, lifeLost |-> FALSE,
     spawned |-> 0]

\* the streams reset() can draw from
ResetDraws == {stream \in SpawnStreams : Provides(stream, FirstWaveSize, Centre)}

\* ------------------------------------------------------------ the UI layer
\* undefined, and a value that is defined
Undefined == << >>
Defined(v) == << v >>

maxMessages == 3
DefaultDuration == 3000
ModeMessageDuration == 2000
WaveMessageDuration == 3000
ModeFlash == 500

\* values of gameState.squadronMode, and String.prototype.toUpperCase on them
Modes == {"formation", "attack"}
ToUpperCase(mode) ==
    CASE mode = "formation" -> "FORMATION"
      [] mode = "escort" -> "ESCORT"
      [] mode = "attack" -> "ATTACK"
      [] mode = "defend" -> "DEFEND"

\* event.key of the keyboard events of the UI, and toLowerCase on them
UIKeys == {"H", "F1", "Escape", "r", "x"}
KeyToLowerCase(k) ==
    CASE k = "H" -> "h"
      [] k = "F1" -> "f1"
      [] k = "Escape" -> "escape"
      [] k = "R" -> "r"
      [] OTHER -> k

\* a || b on numbers
OrElse(a, b) == IF a = 0 THEN b ELSE a

\* the objects of the UI during a call, with what the call has done so far:
\* the messages raised, the numbers of the messages expired and evicted, the
\* calls of gameState.restart, and the number of showMessage calls since
\* construction.  A message carries,
\* besides its fields text, timeLeft and type, its number (the identity of
\* the object), the sum of deltaTime since it was shown and its duration.
UI ==
    [uiManager |-> uiManager, hud |-> hud, gameOverScreen |-> gameOverScreen,
     gameState |-> gameState, listeners |-> listeners,
     raised |-> << >>, expired |-> {}, evicted |-> {}, modeChange |-> FALSE,
     restarts |-> 0, shown |-> uiHist.shown]

\* showMessage with pop() in place of shift(): the newest message is dropped
ShowMessagePops(u, text, duration, type) ==
    Then(Append(u.uiManager.messages,
                [text |-> text, timeLeft |-> duration, type |-> type,
                 no |-> u.shown + 1, age |-> 0, duration |-> duration]),
         LAMBDA pushed :
            [u EXCEPT
               !.uiManager.messages =
                   IF Len(pushed) > maxMessages
                   THEN SubSeq(pushed, 1, maxMessages) ELSE pushed,
               !.uiManager.messageHistory =
                   Append(@, [text |-> text, timeLeft |-> duration, type |-> type,
                              no |-> u.shown + 1, duration |-> duration]),
               !.raised = Append(@, [text |-> text, duration |-> duration,
                                     no |-> u.shown + 1]),
               !.evicted = IF Len(pushed) > maxMessages
                           THEN @ \cup {Head(pushed).no} ELSE @,
               !.shown = @ + 1])

\* UIManager.showMessage(text, duration, type)
ShowMessage(u, text, duration, type) ==
    Then(Append(u.uiManager.messages,
                [text |-> text, timeLeft |-> duration, type |-> type,
                 no |-> u.shown + 1, age |-> 0, duration |-> duration]),
         LAMBDA pushed :
            [u EXCEPT
               !.uiManager.messages =
                   IF Len(pushed) > maxMessages THEN Tail(pushed) ELSE pushed,
               !.uiManager.messageHistory =
                   Append(@, [text |-> text, timeLeft |-> duration, type |-> type,
                              no |-> u.shown + 1, duration |-> duration]),
               !.raised = Append(@, [text |-> text, duration |-> duration,
                                     no |-> u.shown + 1]),
               !.evicted = IF Len(pushed) > maxMessages
                           THEN @ \cup {Head(pushed).no} ELSE @,
               !.shown = @ + 1])

\* the callback of filter in updateMessages, on every message
Aged(messages, deltaTime) ==
    [i \in DOMAIN messages |->
        [messages[i] EXCEPT !.timeLeft = @ - deltaTime, !.age = @ + deltaTime]]

\* updateMessages keeping the messages with timeLeft >= 0
UpdateMessagesKeepsZero(u, deltaTime) ==
    Then(SelectSeq(Aged(u.uiManager.messages, deltaTime), LAMBDA m : m.timeLeft >= 0),
         LAMBDA kept :
            [u EXCEPT
               !.uiManager.messages = kept,
               !.gameState.messages = [i \in DOMAIN kept |-> kept[i].text],
               !.expired = {m.no : m \in Range(u.uiManager.messages)}
                              \ {m.no : m \in Range(kept)}])

\* UIManager.updateMessages(deltaTime)
UpdateMessages(u, deltaTime) ==
    Then(SelectSeq(Aged(u.uiManager.messages, deltaTime), LAMBDA m : m.timeLeft > 0),
         LAMBDA kept :
            [u EXCEPT
               !.uiManager.messages = kept,
               !.gameState.messages = [i \in DOMAIN kept |-> kept[i].text],
               !.expired = {m.no : m \in Range(u.uiManager.messages)}
                              \ {m.no : m \in Range(kept)}])

\* HUD.update(deltaTime)
HudUpdate(u, deltaTime) ==
    IF u.hud.modeChangeFlash > 0
    THEN [u EXCEPT !.hud.modeChangeFlash = @ - deltaTime]
    ELSE u

\* HUD.onModeChange(newMode)
OnModeChange(u) == [u EXCEPT !.hud.modeChangeFlash = ModeFlash]

\* GameOverScreen.update(deltaTime)
ScreenUpdate(u, deltaTime) ==
    IF u.gameOverScreen.isVisible
    THEN [u EXCEPT !.gameOverScreen.showTime = @ + deltaTime]
    ELSE u

\* GameOverScreen.show(finalStats); addEventListener does not add a listener
\* that is registered already
Show(u, finalStats) ==
    [u EXCEPT
       !.gameOverScreen =
           [isVisible |-> TRUE,
            showTime |-> 0,
            statistics |->
               [finalScore |-> OrElse(OrElse(finalStats.score, u.gameState.score), 0),
                wavesCompleted |-> OrElse(OrElse(finalStats.wave, u.gameState.wave), 1),
                asteroidsDestroyed |-> OrElse(finalStats.asteroidsDestroyed, 0),
                timeAlive |-> OrElse(finalStats.timeAlive, 0),
                squadronShipsLost |-> OrElse(finalStats.squadronShipsLost, 0),
                accuracy |-> OrElse(finalStats.accuracy, 0),
                score |-> finalStats.score,
                wave |-> finalStats.wave]],
       !.listeners = IF "GameOverScreen" \in Range(@)
                     THEN @ ELSE Append(@, "GameOverScreen")]

\* hide() without removeEventListener
HideKeepsListener(u) ==
    [u EXCEPT !.gameOverScreen.isVisible = FALSE]

\* GameOverScreen.hide()
Hide(u) ==
    [u EXCEPT !.gameOverScreen.isVisible = FALSE,
              !.listeners = SelectSeq(@, LAMBDA l : l # "GameOverScreen")]

\* UIManager.showGameOver(), for a gameState without asteroidsDestroyed,
\* gameTime, squadronShipsLost, shotsFired and shotsHit
ShowGameOver(u) ==
    Show(u, [score |-> u.gameState.score, wave |-> u.gameState.wave,
             asteroidsDestroyed |-> 0, timeAlive |-> 0, squadronShipsLost |-> 0,
             accuracy |-> 0])

\* handleGameStateChanges: the check for squadron mode changes
ModeChanges(u) ==
    IF u.gameState.lastSquadronMode # Defined(u.gameState.squadronMode)
    THEN Then(ShowMessage(OnModeChange(u),
                          "Squadron Mode: " \o ToUpperCase(u.gameState.squadronMode),
                          ModeMessageDuration, "info"),
              LAMBDA v : [v EXCEPT !.gameState.lastSquadronMode =
                                       Defined(v.gameState.squadronMode),
                                   !.modeChange = TRUE])
    ELSE u

\* the check for game over without the test of isShown()
GameOverChangesAlways(u) ==
    IF u.gameState.gameOver THEN ShowGameOver(u) ELSE u

\* handleGameStateChanges: the check for game over
GameOverChanges(u) ==
    IF u.gameState.gameOver /\ ~u.gameOverScreen.isVisible THEN ShowGameOver(u) ELSE u

\* handleGameStateChanges: the check for a new wave
WaveChanges(u) ==
    IF u.gameState.lastWave # Defined(u.gameState.wave)
    THEN Then(IF u.gameState.lastWave # Undefined
              THEN ShowMessage(u, "WAVE " \o ToString(u.gameState.wave),
                               WaveMessageDuration, "info")
              ELSE u,
              LAMBDA v : [v EXCEPT !.gameState.lastWave = Defined(v.gameState.wave)])
    ELSE u

\* UIManager.handleGameStateChanges()
HandleGameStateChanges(u) == WaveChanges(GameOverChanges(ModeChanges(u)))

\* UIManager.update(deltaTime); updatePerformanceMetrics() keeps the frame
\* rate for the debug panel and is left out
UIManagerUpdate(u, deltaTime) ==
    HandleGameStateChanges(
        ScreenUpdate(HudUpdate(UpdateMessages(u, deltaTime), deltaTime), deltaTime))

\* handleKeyPress comparing event.key itself, without toLowerCase()
HandleKeyPressExact(u, key) ==
    CASE key = "h" ->
            [u EXCEPT !.uiManager.showControls = ~@]
      [] key = "f1" ->
            [u EXCEPT !.uiManager.debugMode = ~@]
      [] key = "escape" ->
            [u EXCEPT !.uiManager.paused = ~@,
                      !.gameState.pausedSet =
                          IF u.gameState.setPaused
                          THEN Defined(~u.uiManager.paused) ELSE @]
      [] OTHER -> u

\* UIManager.handleKeyPress(event); setPaused records what it was called with
HandleKeyPress(u, key) ==
    CASE KeyToLowerCase(key) = "h" ->
            [u EXCEPT !.uiManager.showControls = ~@]
      [] KeyToLowerCase(key) = "f1" ->
            [u EXCEPT !.uiManager.debugMode = ~@]
      [] KeyToLowerCase(key) = "escape" ->
            [u EXCEPT !.uiManager.paused = ~@,
                      !.gameState.pausedSet =
                          IF u.gameState.setPaused
                          THEN Defined(~u.uiManager.paused) ELSE @]
      [] OTHER -> u

\* GameOverScreen.restart(), restarted being gameState after its restart()
Restart(u, restarted) ==
    IF u.gameState.restart
    THEN [Hide(u) EXCEPT !.gameState = restarted, !.restarts = @ + 1]
    ELSE Hide(u)

\* GameOverScreen.handleKeyPress(event)
ScreenKeyPress(u, key, restarted) ==
    IF KeyToLowerCase(key) = "r" /\ u.gameOverScreen.isVisible
    THEN Restart(u, restarted)
    ELSE u

\* a keydown event on document: the listeners registered when it is
\* dispatched are called in the order of their registration
Dispatch(u, key, restarted) ==
    IF "GameOverScreen" \in Range(u.listeners)
    THEN ScreenKeyPress(HandleKeyPress(u, key), key, restarted)
    ELSE HandleKeyPress(u, key)

\* UIManager.reset()
UIReset(u) ==
    Then(Hide(u),
         LAMBDA v : [v EXCEPT !.uiManager.messages = << >>,
                              !.uiManager.messageHistory = << >>,
                              !.uiManager.paused = FALSE,
                              !.gameState.messages = << >>,
                              !.gameState.lastSquadronMode = Undefined,
                              !.gameState.lastWave = Undefined])

\* UIManager.render(): the components drawn
Render(u) ==
    IF u.gameOverScreen.isVisible
    THEN {"gameOverScreen"}
    ELSE {"hud", "minimap"}
            \cup (IF u.uiManager.showControls THEN {"controls"} ELSE {})
            \cup (IF u.uiManager.debugMode THEN {"debugInfo"} ELSE {})
            \cup (IF u.uiManager.paused THEN {"pauseOverlay"} ELSE {})

\* what uiObs holds after a call that is not the one of interest
UIIdle(op) ==
    [op |-> op, deltaTime |-> 0, key |-> "", flags0 |-> << >>, lastKey0 |-> Undefined,
     messages0 |-> << >>, raised |-> << >>, expired |-> {}, evicted |-> {},
     modeChange |-> FALSE, mode0 |-> "", wave0 |-> 0, gameOver0 |-> FALSE,
     seen0 |-> Undefined, fresh0 |-> FALSE, drawn |-> {}, restarts |-> 0,
     visible0 |-> FALSE]

\* the three flags of the UIManager
Flags(manager) == << manager.showControls, manager.debugMode, manager.paused >>

\* new UIManager(canvas, gameState, gameWorld), with new HUD and new
\* GameOverScreen, for a gameState in its first wave
UINew ==
    /\ uiManager = [showControls |-> FALSE, debugMode |-> FALSE, paused |-> FALSE,
                    messages |-> << >>, messageHistory |-> << >>]
    /\ hud = [modeChangeFlash |-> 0]
    /\ gameOverScreen =
          [isVisible |-> FALSE, showTime |-> 0,
           statistics |-> [finalScore |-> 0, wavesCompleted |-> 0,
                           asteroidsDestroyed |-> 0, timeAlive |-> 0,
                           squadronShipsLost |-> 0, accuracy |-> 0]]
    /\ gameState = [score |-> 0, wave |-> 1, gameOver |-> FALSE,
                    squadronMode |-> "formation", lastSquadronMode |-> Undefined,
                    lastWave |-> Undefined, messages |-> << >>,
                    setPaused |-> FALSE, restart |-> FALSE, pausedSet |-> Undefined]
    /\ listeners = << "UIManager" >>
    /\ uiObs = UIIdle("new")
    /\ uiHist = [updates |-> 0, events |-> 0, shown |-> 0, seen |-> Undefined,
                 fresh |-> TRUE, stats |-> Undefined, lastKey |-> Undefined]

\* the objects of the UI after a call
UIBecomes(u) ==
    /\ uiManager' = u.uiManager
    /\ hud' = u.hud
    /\ gameOverScreen' = u.gameOverScreen
    /\ gameState' = u.gameState
    /\ listeners' = u.listeners

\* what uiHist holds after a call that left the objects as u: the gameState
\* for which the game-over screen was shown, the calls of showMessage
Noted(hist, u) ==
    [hist EXCEPT
       !.shown = u.shown,
       !.stats = IF u.gameOverScreen.isVisible /\ ~gameOverScreen.isVisible
                 THEN Defined([score |-> gameState.score, wave |-> gameState.wave])
                 ELSE IF u.gameOverScreen.isVisible THEN @ ELSE Undefined]

\* calc before any such call
NoCalc == [op |-> "none"]

\* new Game(): reset(), setupEventListeners(), lastTime = 0, keys = {}
Init ==
    /\ \E stream \in ResetDraws : \E g \in {Reset(Blank, stream)} :
          /\ ship = g.ship
          /\ bullets = g.bullets
          /\ asteroids = g.asteroids
          /\ score = g.score
          /\ lives = g.lives
          /\ gameOver = g.gameOver
          /\ canShoot = g.canShoot
          /\ shootCooldown = g.shootCooldown
          /\ scoreText = g.scoreText
          /\ livesText = g.livesText
          /\ finalScoreText = g.finalScoreText
          /\ screenHidden = g.screenHidden
    /\ keys = [k \in KeyNames |-> FALSE]
    /\ lastTime = 0
    /\ started = FALSE
    /\ simTime = 0
    /\ lastLoss = -1
    /\ press = NoPress
    /\ obs = Idle
    /\ resets = 0
    /\ keyEvents = 0
    /\ skipped = 0
    /\ waves = << FirstWaveSize >>
    /\ pending = 0
    /\ UINew
    /\ calc = NoCalc

\* the keydown listener without the test of gameOver: R always resets
KeyDownResets(k) ==
    /\ started
    /\ \E g \in {[Game EXCEPT !.keys[ToLowerCase(k)] = TRUE]} :
          IF ToLowerCase(k) = "r"
          THEN /\ \E stream \in ResetDraws : \E h \in {Reset(g, stream)} : Becomes(h)
               /\ resets' = resets + 1
               /\ lastLoss' = -1
               /\ obs' = Idle
               /\ waves' = << FirstWaveSize >>
          ELSE /\ Becomes(g)
               /\ UNCHANGED << resets, lastLoss, obs, waves >>
    /\ press' = IF k = " " /\ ~keys[" "] /\ canShoot /\ ~gameOver
                THEN [held |-> TRUE, released |-> FALSE, settled |-> FALSE, shots |-> 0,
                      last |-> press.last, auto |-> FALSE]
                ELSE IF ToLowerCase(k) = "r" THEN [press EXCEPT !.last = -1, !.auto = FALSE]
                ELSE press
    /\ keyEvents' = keyEvents + 1
    /\ UNCHANGED << lastTime, started, simTime, skipped, pending >>
    /\ UNCHANGED << uiVars, calc >>

\* the keydown listener of setupEventListeners
KeyDown(k) ==
    /\ started
    /\ \E g \in {[Game EXCEPT !.keys[ToLowerCase(k)] = TRUE]} :
          IF ToLowerCase(k) = "r" /\ g.gameOver
          THEN /\ \E stream \in ResetDraws : \E h \in {Reset(g, stream)} : Becomes(h)
               /\ resets' = resets + 1
               /\ lastLoss' = -1
               /\ obs' = Idle
               /\ waves' = << FirstWaveSize >>
          ELSE /\ Becomes(g)
               /\ UNCHANGED << resets, lastLoss, obs, waves >>
    /\ press' = IF k = " " /\ ~keys[" "] /\ canShoot /\ ~gameOver
                THEN [held |-> TRUE, released |-> FALSE, settled |-> FALSE, shots |-> 0,
                      last |-> press.last, auto |-> FALSE]
                ELSE IF ToLowerCase(k) = "r" /\ gameOver
                     THEN [press EXCEPT !.last = -1, !.auto = FALSE]
                ELSE press
    /\ keyEvents' = keyEvents + 1
    /\ UNCHANGED << lastTime, started, simTime, skipped, pending >>
    /\ UNCHANGED << uiVars, calc >>

\* the keyup listener of setupEventListeners
KeyUp(k) ==
    /\ started
    /\ \E g \in {[Game EXCEPT !.keys[ToLowerCase(k)] = FALSE]} : Becomes(g)
    /\ press' = IF k = " " /\ press.held
                THEN [press EXCEPT !.held = FALSE, !.released = TRUE, !.auto = FALSE]
                ELSE IF k = " " THEN [press EXCEPT !.auto = FALSE]
                ELSE press
    /\ keyEvents' = keyEvents + 1
    /\ UNCHANGED << lastTime, started, simTime, lastLoss, obs, resets, skipped,
                    waves, pending >>
    /\ UNCHANGED << uiVars, calc >>

\* gameLoop without its test of deltaTime
ShortFrameAlways(dt) == TRUE

\* deltaTime < 0.1, for deltaTime in ticks
ShortFrame(dt) == 10 * dt < TicksPerSecond

\* what an update that took g0 to g leaves in obs
Observed(g0, g, loss) ==
    [ran |-> TRUE, lives0 |-> g0.lives, score0 |-> g0.score, loss0 |-> loss,
     fired |-> g.fired, shot |-> g.shot, shooter |-> g.shooter,
     touched |-> g.touched, vulnerable |-> g.vulnerable, hits |-> g.hits,
     struck |-> g.struck, lifeLost |-> g.lifeLost, spawned |-> g.spawned]

\* gameLoop with the request of the next frame inside the if, after draw()
GameLoopStopsOnSkip(last, currentTime, queued) ==
    /\ lastTime' = currentTime
    /\ \E dt \in {currentTime - last}, g0 \in {Game} :
          IF ShortFrame(dt)
          THEN \E dirs \in FragmentDraws(g0, dt) :
               \E stream \in SpawnDraws(g0, dt, dirs) :
               \E g \in {Update(g0, dt, dirs, stream)} :
                  /\ Becomes(g)
                  /\ simTime' = IF g0.gameOver THEN simTime ELSE simTime + dt
                  /\ lastLoss' = IF g.lifeLost THEN simTime + dt ELSE lastLoss
                  /\ obs' = IF g0.gameOver THEN Idle ELSE Observed(g0, g, lastLoss)
                  /\ press' = IF g.fired /\ press.held
                              THEN [press EXCEPT !.shots = @ + 1, !.last = simTime,
                                                 !.auto = TRUE]
                              ELSE IF press.released /\ ~g0.gameOver
                                   THEN [press EXCEPT !.settled = TRUE,
                                                      !.last = IF g.fired THEN simTime ELSE @,
                                                      !.auto = g.fired \/ @]
                                   ELSE [press EXCEPT !.last = IF g.fired THEN simTime ELSE @,
                                                      !.auto = g.fired \/ @]
                  /\ waves' = IF g.spawned > 0 THEN Append(waves, g.spawned) ELSE waves
                  /\ skipped' = skipped
          ELSE /\ Becomes(g0)
               /\ obs' = Idle
               /\ skipped' = skipped + 1
               /\ UNCHANGED << simTime, lastLoss, press, waves >>
    /\ pending' = IF ShortFrame(currentTime - last) THEN queued + 1 ELSE queued
    /\ UNCHANGED << resets, keyEvents >>

\* Game.gameLoop(currentTime) with this.lastTime = last and queued frame
\* requests waiting; draw() changes no field, and the last statement requests
\* one more frame
GameLoop(last, currentTime, queued) ==
    /\ lastTime' = currentTime
    /\ \E dt \in {currentTime - last}, g0 \in {Game} :
          IF ShortFrame(dt)
          THEN \E dirs \in FragmentDraws(g0, dt) :
               \E stream \in SpawnDraws(g0, dt, dirs) :
               \E g \in {Update(g0, dt, dirs, stream)} :
                  /\ Becomes(g)
                  /\ simTime' = IF g0.gameOver THEN simTime ELSE simTime + dt
                  /\ lastLoss' = IF g.lifeLost THEN simTime + dt ELSE lastLoss
                  /\ obs' = IF g0.gameOver THEN Idle ELSE Observed(g0, g, lastLoss)
                  /\ press' = IF g.fired /\ press.held
                              THEN [press EXCEPT !.shots = @ + 1, !.last = simTime,
                                                 !.auto = TRUE]
                              ELSE IF press.released /\ ~g0.gameOver
                                   THEN [press EXCEPT !.settled = TRUE,
                                                      !.last = IF g.fired THEN simTime ELSE @,
                                                      !.auto = g.fired \/ @]
                                   ELSE [press EXCEPT !.last = IF g.fired THEN simTime ELSE @,
                                                      !.auto = g.fired \/ @]
                  /\ waves' = IF g.spawned > 0 THEN Append(waves, g.spawned) ELSE waves
                  /\ skipped' = skipped
          ELSE /\ Becomes(g0)
               /\ obs' = Idle
               /\ skipped' = skipped + 1
               /\ UNCHANGED << simTime, lastLoss, press, waves >>
    /\ pending' = queued + 1
    /\ UNCHANGED << resets, keyEvents >>

\* Game.start(): lastTime = performance.now(), then gameLoop(lastTime)
Start ==
    /\ ~started
    /\ started' = TRUE
    /\ \E now \in {Seconds(1, 8)} : GameLoop(now, now, pending)
    /\ UNCHANGED << uiVars, calc >>

\* the callback of requestAnimationFrame, d ticks after the last one: it runs
\* only when a frame has been requested, and takes that request
Frame(d) ==
    /\ started
    /\ pending > 0
    /\ started' = started
    /\ GameLoop(lastTime, lastTime + d, pending - 1)
    /\ UNCHANGED << uiVars, calc >>

\* ----------------------------------------------------------- specifications
\* Keys pressed and released, frames of the intervals of gaps (ticks), up to
\* maxTime on the clock, maxKeys key events and maxSkips dropped frames; the
\* keyboard is left alone until the clock shows keysFrom.  A key is released
\* only while it is down; the repeated keydown events of a key held down are
\* left out while the game runs, where the listener only writes TRUE to an
\* entry of keys that is TRUE.
Play(eventKeys, gaps, keysFrom, maxTime, maxKeys, maxSkips) ==
    \/ Start
    \/ \E k \in eventKeys :
          /\ keyEvents < maxKeys
          /\ lastTime >= keysFrom
          /\ ~keys[ToLowerCase(k)] \/ gameOver
          /\ KeyDown(k)
    \/ \E k \in eventKeys :
          /\ keyEvents < maxKeys
          /\ lastTime >= keysFrom
          /\ keys[ToLowerCase(k)]
          /\ KeyUp(k)
    \/ \E d \in gaps :
          /\ lastTime + d <= maxTime
          /\ ShortFrame(d) \/ skipped < maxSkips
          /\ Frame(d)

\* the first second of a game: thrust, turn, shoot, the restart key and a key
\* the game does not use; frames of 3 ticks and dropped frames of 4
PlayKeys == {" ", "w", "a", "R", "x"}
FrameGaps == {3, 4}
MaxTime == 31
MaxKeyEvents == 2
MaxSkipped == 1

Next == Play(PlayKeys, FrameGaps, 0, MaxTime, MaxKeyEvents, MaxSkipped)

Spec == Init /\ [][Next]_vars

\* a whole game and the start of the next: the ship is left where it is
\* until the clock shows QuietTime, then come the spacebar and the restart key
LongKeys == {" ", "r", "R"}
LongGaps == {3}
QuietTime == 560
MaxLongTime == 620
MaxLongKeys == 2

NextLong == Play(LongKeys, LongGaps, QuietTime, MaxLongTime, MaxLongKeys, 0)

SpecLong == Init /\ [][NextLong]_vars

\* the spacebar alone, tapped and held, with frames of 1, 2 and 3 ticks
FireKeys == {" "}
FireGaps == {1, 2, 3}
MaxFireTime == 16
MaxFireKeys == 3

NextFire == Play(FireKeys, FireGaps, 0, MaxFireTime, MaxFireKeys, 0)

SpecFire == Init /\ [][NextFire]_vars

\* The end of a wave.  A wave of n large asteroids is cleared by 7 n hits (n
\* large, 2 n medium, 4 n small asteroids), so the score before the last hit
\* of a wave is fixed by the sizes of the waves so far.
WaveScore(n) == n * (Points("large") + 2 * Points("medium") + 4 * Points("small"))

RECURSIVE ScoreOfWaves(_, _)
ScoreOfWaves(sizes, i) ==
    IF i > Len(sizes) THEN 0 ELSE WaveScore(sizes[i]) + ScoreOfWaves(sizes, i + 1)

\* the waves a game has seen when its first, second or third wave ends
LateWaves == { << 5 >>, << 5, 7 >>, << 5, 7, 7 >> }

\* the ship at that time: at rest in the centre, or drifting across an edge
LateShips ==
    { Ship(Px(CanvasWidth) \div 2, Px(CanvasHeight) \div 2),
      [Ship(Px(790), Px(300)) EXCEPT !.velocity = Vector2D(Px(200), 0)],
      [Ship(Px(10), Px(300)) EXCEPT !.velocity = Vector2D(-Px(200), 0)],
      [Ship(Px(400), Px(595)) EXCEPT !.velocity = Vector2D(0, Px(200))],
      [Ship(Px(400), Px(5)) EXCEPT !.velocity = Vector2D(0, -Px(200))] }

\* the last asteroid of the wave
LateAsteroids ==
    { Asteroid(Vector2D(Px(500), Px(300)), "small", West),
      Asteroid(Vector2D(Px(460), Px(300)), "small", East),
      Asteroid(Vector2D(Px(60), Px(300)), "small", East) }

\* a running game with one small asteroid left; the clock and the simulated
\* time count from the last frame before
InitLate ==
    /\ ship \in LateShips
    /\ bullets = << >>
    /\ \E a \in LateAsteroids : asteroids = << a >>
    /\ \E sizes \in LateWaves :
          /\ waves = sizes
          /\ score = ScoreOfWaves(sizes, 1) - Points("small")
          /\ scoreText = Text(ScoreOfWaves(sizes, 1) - Points("small"))
    /\ lives = StartLives
    /\ livesText = Text(StartLives)
    /\ gameOver = FALSE
    /\ canShoot = TRUE
    /\ shootCooldown = 0
    /\ keys = [k \in KeyNames |-> FALSE]
    /\ finalScoreText = ""
    /\ screenHidden = TRUE
    /\ lastTime = 0
    /\ started = TRUE
    /\ pending = 1
    /\ simTime = 0
    /\ lastLoss = -1
    /\ press = NoPress
    /\ obs = Idle
    /\ resets = 0
    /\ keyEvents = 0
    /\ skipped = 0
    /\ UINew
    /\ calc = NoCalc

LateKeys == {" "}
MaxLateTime == 24
MaxLateKeys == 2

\* the events of Play for a game that has been started
NextLate ==
    \/ \E k \in LateKeys :
          /\ keyEvents < MaxLateKeys
          /\ ~keys[ToLowerCase(k)] \/ gameOver
          /\ KeyDown(k)
    \/ \E k \in LateKeys :
          /\ keyEvents < MaxLateKeys
          /\ keys[ToLowerCase(k)]
          /\ KeyUp(k)
    \/ \E d \in LongGaps :
          /\ lastTime + d <= MaxLateTime
          /\ Frame(d)

SpecLate == InitLate /\ [][NextLate]_vars

\* the same game for the life of a bullet: the spacebar in the first frames,
\* then frames until the bullets fired have expired
MaxExpiryTime == 54
MaxExpiryKeys == 2
MaxExpiryKeyTime == 6

NextExpiry ==
    \/ \E k \in LateKeys :
          /\ keyEvents < MaxExpiryKeys
          /\ lastTime <= MaxExpiryKeyTime
          /\ ~keys[ToLowerCase(k)] \/ gameOver
          /\ KeyDown(k)
    \/ \E k \in LateKeys :
          /\ keyEvents < MaxExpiryKeys
          /\ lastTime <= MaxExpiryKeyTime
          /\ keys[ToLowerCase(k)]
          /\ KeyUp(k)
    \/ \E d \in LongGaps :
          /\ lastTime + d <= MaxExpiryTime
          /\ Frame(d)

SpecExpiry == InitLate /\ [][NextExpiry]_vars

\* A whole game with the frames the browser delivers: every frame requested
\* with requestAnimationFrame is called back, 3 ticks after the last one, and
\* the script of the page calls game.start().  From LiveFrom on, when the
\* game is over, come the restart key and, up to MaxSkipped times, a frame 4
\* ticks after the last one, which is dropped.  The clock of the model ends
\* at MaxLongTime.
LiveKeys == {"r"}
LiveFrom == 600

AnimationFrame ==
    \E d \in LongGaps : lastTime + d <= MaxLongTime /\ Frame(d)

LateFrame ==
    \E d \in FrameGaps \ LongGaps :
       /\ lastTime >= LiveFrom
       /\ lastTime + d <= MaxLongTime
       /\ skipped < MaxSkipped
       /\ Frame(d)

NextLive ==
    \/ Play(LiveKeys, LongGaps, LiveFrom, MaxLongTime, MaxLongKeys, 0)
    \/ LateFrame

SpecLive ==
    /\ Init
    /\ [][NextLive]_vars
    /\ WF_vars(Start)
    /\ WF_vars(AnimationFrame)

\* ------------------------------------------------------- the UI at work
\* The host of the UI calls update and render, changes the fields of
\* gameState the UI reads, installs setPaused and restart in it, shows
\* messages of its own and resets the UI; keys go down on document.
MaxUIUpdates == 3
MaxUIEvents == 2
MaxHistory == 5

UIDeltas == {1000, 1500}
HostDurations == {DefaultDuration}

\* uiManager.update(deltaTime), called by the host
UIUpdate(deltaTime) ==
    /\ uiHist.updates < MaxUIUpdates
    /\ Len(uiManager.messageHistory) + 2 <= MaxHistory
    /\ \E u \in {UIManagerUpdate(UI, deltaTime)} :
          /\ UIBecomes(u)
          /\ uiObs' = [UIIdle("update") EXCEPT
                         !.deltaTime = deltaTime,
                         !.messages0 = uiManager.messages,
                         !.raised = u.raised,
                         !.expired = u.expired,
                         !.evicted = u.evicted,
                         !.modeChange = u.modeChange,
                         !.mode0 = gameState.squadronMode,
                         !.wave0 = gameState.wave,
                         !.gameOver0 = gameState.gameOver,
                         !.seen0 = uiHist.seen,
                         !.fresh0 = uiHist.fresh]
          /\ uiHist' = [Noted(uiHist, u) EXCEPT
                          !.updates = @ + 1,
                          !.seen = Defined([mode |-> gameState.squadronMode,
                                            wave |-> gameState.wave]),
                          !.fresh = FALSE]
    /\ UNCHANGED << gameVars, calc >>

\* uiManager.render(), called by the host
UIRender ==
    /\ uiObs.op # "render"
    /\ uiObs' = [UIIdle("render") EXCEPT !.drawn = Render(UI)]
    /\ UNCHANGED << uiManager, hud, gameOverScreen, gameState, listeners, uiHist >>
    /\ UNCHANGED << gameVars, calc >>

\* gameState after the restart() a host has installed: a new game, or no change
RestartOutcomes(state) ==
    {[state EXCEPT !.gameOver = FALSE, !.score = 0, !.wave = 1], state}

\* a keydown event on document
UIKeyDown(key) ==
    /\ uiHist.events < MaxUIEvents
    /\ \E restarted \in RestartOutcomes(gameState) :
       \E u \in {Dispatch(UI, key, restarted)} :
          /\ UIBecomes(u)
          /\ uiObs' = [UIIdle("key") EXCEPT
                         !.key = key,
                         !.flags0 = Flags(uiManager),
                         !.lastKey0 = uiHist.lastKey,
                         !.restarts = u.restarts,
                         !.visible0 = gameOverScreen.isVisible]
          /\ uiHist' = [Noted(uiHist, u) EXCEPT
                          !.events = @ + 1,
                          !.lastKey = Defined([key |-> KeyToLowerCase(key),
                                               flags0 |-> Flags(uiManager)])]
    /\ UNCHANGED << gameVars, calc >>

\* the host changes gameState between two updates: the next wave is reached
\* with 100 points more, the squadron mode is changed, the game ends
HostChange(nextWave, nextMode, over) ==
    /\ uiHist.events < MaxUIEvents
    /\ nextWave \/ nextMode # gameState.squadronMode \/ over
    /\ ~(over /\ gameState.gameOver)
    /\ gameState' = [gameState EXCEPT
                       !.wave = IF nextWave THEN @ + 1 ELSE @,
                       !.score = IF nextWave THEN @ + 100 ELSE @,
                       !.squadronMode = nextMode,
                       !.gameOver = @ \/ over]
    /\ uiObs' = UIIdle("host")
    /\ uiHist' = [uiHist EXCEPT !.events = @ + 1]
    /\ UNCHANGED << uiManager, hud, gameOverScreen, listeners >>
    /\ UNCHANGED << gameVars, calc >>

\* the host installs gameState.setPaused and gameState.restart
HostInstall ==
    /\ ~gameState.setPaused
    /\ gameState' = [gameState EXCEPT !.setPaused = TRUE, !.restart = TRUE]
    /\ uiObs' = UIIdle("host")
    /\ UNCHANGED << uiManager, hud, gameOverScreen, listeners, uiHist >>
    /\ UNCHANGED << gameVars, calc >>

\* uiManager.showMessage(text, duration), called by the host
HostShowMessage(text, duration) ==
    /\ uiHist.events < MaxUIEvents
    /\ Len(uiManager.messageHistory) + 1 <= MaxHistory
    /\ \E u \in {ShowMessage(UI, text, duration, "info")} :
          /\ UIBecomes(u)
          /\ uiObs' = [UIIdle("show") EXCEPT !.messages0 = uiManager.messages,
                                             !.raised = u.raised,
                                             !.evicted = u.evicted]
          /\ uiHist' = [Noted(uiHist, u) EXCEPT !.events = @ + 1]
    /\ UNCHANGED << gameVars, calc >>

\* uiManager.reset(), called by the host
HostReset ==
    /\ uiHist.events < MaxUIEvents
    /\ \E u \in {UIReset(UI)} :
          /\ UIBecomes(u)
          /\ uiObs' = UIIdle("reset")
          /\ uiHist' = [Noted(uiHist, u) EXCEPT !.events = @ + 1,
                                                !.fresh = TRUE,
                                                !.lastKey = Undefined]
    /\ UNCHANGED << gameVars, calc >>

NextUI ==
    \/ \E deltaTime \in UIDeltas : UIUpdate(deltaTime)
    \/ UIRender
    \/ \E key \in UIKeys : UIKeyDown(key)
    \/ \E nextWave, over \in BOOLEAN, nextMode \in Modes :
          HostChange(nextWave, nextMode, over)
    \/ HostInstall
    \/ \E duration \in HostDurations : HostShowMessage("READY", duration)
    \/ HostReset

SpecUI == Init /\ [][NextUI]_vars

\* ------------------------------------------- the game-over screen alone
\* A host that uses the GameOverScreen component itself, as exported by
\* ui/index.js: it shows the screen with the statistics of a game, hides it
\* and updates it, whatever the screen shows already; keys go down on
\* document.
FinalStats ==
    {[score |-> 0, wave |-> 0, asteroidsDestroyed |-> 0, timeAlive |-> 0,
      squadronShipsLost |-> 0, accuracy |-> 0],
     [score |-> 100, wave |-> 2, asteroidsDestroyed |-> 7, timeAlive |-> 0,
      squadronShipsLost |-> 0, accuracy |-> 0]}

\* gameOverScreen.show(finalStats), called by the host
ScreenShow(finalStats) ==
    /\ uiHist.events < MaxUIEvents
    /\ \E u \in {Show(UI, finalStats)} :
          /\ UIBecomes(u)
          /\ uiObs' = [UIIdle("screen.show") EXCEPT
                         !.visible0 = gameOverScreen.isVisible]
          /\ uiHist' = [Noted(uiHist, u) EXCEPT !.events = @ + 1]
    /\ UNCHANGED << gameVars, calc >>

\* gameOverScreen.hide(), called by the host
ScreenHide ==
    /\ uiHist.events < MaxUIEvents
    /\ \E u \in {Hide(UI)} :
          /\ UIBecomes(u)
          /\ uiObs' = [UIIdle("screen.hide") EXCEPT
                         !.visible0 = gameOverScreen.isVisible]
          /\ uiHist' = [Noted(uiHist, u) EXCEPT !.events = @ + 1]
    /\ UNCHANGED << gameVars, calc >>

\* gameOverScreen.update(deltaTime), called by the host
ScreenTick(deltaTime) ==
    /\ uiHist.updates < MaxUIUpdates
    /\ \E u \in {ScreenUpdate(UI, deltaTime)} :
          /\ UIBecomes(u)
          /\ uiObs' = [UIIdle("screen.update") EXCEPT
                         !.deltaTime = deltaTime,
                         !.visible0 = gameOverScreen.isVisible]
          /\ uiHist' = [Noted(uiHist, u) EXCEPT !.updates = @ + 1]
    /\ UNCHANGED << gameVars, calc >>

NextScreen ==
    \/ \E finalStats \in FinalStats : ScreenShow(finalStats)
    \/ ScreenHide
    \/ \E deltaTime \in UIDeltas : ScreenTick(deltaTime)
    \/ \E key \in UIKeys : UIKeyDown(key)
    \/ HostInstall

SpecScreen == Init /\ [][NextScreen]_vars

\* ------------------------------------------------------ numbers of the UI
\* The coordinates of the minimap are JavaScript numbers used with fractions:
\* binary floating point, every operation rounded to the nearest
\* representable value, ties to even.  The model keeps the arithmetic and
\* shortens the significand from 53 to MantissaBits bits; a number is
\* m * 2^e with 2^(MantissaBits-1) <= |m| < 2^MantissaBits, or 0.
MantissaBits == 12

Pow2(k) == 2 ^ k

\* the number of binary digits of n > 0
BitLength(n) == CHOOSE k \in 1 .. 30 : Pow2(k - 1) <= n /\ n < Pow2(k)

Zero == [m |-> 0, e |-> 0]

\* a / 2^shift rounded to a whole number, ties to even, for a >= 0, shift > 0
RoundShift(a, shift) ==
    IF \/ 2 * (a % Pow2(shift)) > Pow2(shift)
       \/ 2 * (a % Pow2(shift)) = Pow2(shift) /\ (a \div Pow2(shift)) % 2 = 1
    THEN a \div Pow2(shift) + 1
    ELSE a \div Pow2(shift)

\* the number nearest to a * 2^e, for a whole number a > 0 of n digits
RoundPositive(a, e, n) ==
    IF n <= MantissaBits
    THEN [m |-> a * Pow2(MantissaBits - n), e |-> e - (MantissaBits - n)]
    ELSE IF RoundShift(a, n - MantissaBits) = Pow2(MantissaBits)
         THEN [m |-> Pow2(MantissaBits - 1), e |-> e + (n - MantissaBits) + 1]
         ELSE [m |-> RoundShift(a, n - MantissaBits), e |-> e + (n - MantissaBits)]

Negate(a) == [a EXCEPT !.m = -@]

\* the number nearest to m * 2^e, for a whole number m
Round(m, e) ==
    IF m = 0 THEN Zero
    ELSE IF m > 0 THEN RoundPositive(m, e, BitLength(m))
    ELSE Negate(RoundPositive(-m, e, BitLength(-m)))

\* a whole number as a number
Number(n) == Round(n, 0)

\* a * b
Times(a, b) == Round(a.m * b.m, a.e + b.e)

\* a + b: exact on a common exponent, then rounded; a term too small to
\* reach half a unit in the last place of the other changes nothing
Plus(a, b) ==
    IF a.m = 0 THEN b
    ELSE IF b.m = 0 THEN a
    ELSE IF a.e - b.e > MantissaBits + 2 THEN a
    ELSE IF b.e - a.e > MantissaBits + 2 THEN b
    ELSE IF a.e >= b.e THEN Round(a.m * Pow2(a.e - b.e) + b.m, b.e)
    ELSE Round(a.m + b.m * Pow2(b.e - a.e), a.e)

\* a - b
Minus(a, b) == Plus(a, Negate(b))

\* a / b for a > 0, b > 0: the quotient to MantissaBits + 2 digits with one
\* more digit that is 1 when the division left a remainder, then rounded
OverPositive(a, b) ==
    Round(2 * ((a.m * Pow2(MantissaBits + 1)) \div b.m)
                  + (IF (a.m * Pow2(MantissaBits + 1)) % b.m = 0 THEN 0 ELSE 1),
          a.e - b.e - MantissaBits - 2)

\* a / b for b > 0
Over(a, b) ==
    IF a.m = 0 THEN Zero
    ELSE IF a.m > 0 THEN OverPositive(a, b)
    ELSE Negate(OverPositive(Negate(a), b))

\* |a - b| < c * 2^(k - MantissaBits), computed without rounding, for a whole
\* number c > 0
Closer(a, b, c, k) ==
    \E e \in {IF a.e <= b.e THEN a.e ELSE b.e} :
    \E d \in {IF a.e - e > 2 * MantissaBits \/ b.e - e > 2 * MantissaBits
               THEN c
               ELSE Abs(a.m * Pow2(a.e - e) - b.m * Pow2(b.e - e))} :
        IF e + MantissaBits - k >= 0
        THEN d < c /\ d * Pow2(e + MantissaBits - k) < c
        ELSE k - MantissaBits - e > MantissaBits \/ d < c * Pow2(k - MantissaBits - e)

\* a <= b
AtMost(a, b) == Minus(a, b).m <= 0

\* ------------------------------------------- methods that change no field
\* Calls of the methods that compute a result from their arguments and the
\* fields they read, for arguments drawn from small sets; calc keeps the
\* first call of a run.
\* The radii of the ship, a bullet and the asteroids
Radii == {ShipRadius, BulletRadius} \cup {AsteroidRadius(size) : size \in Sizes}

\* differences of a coordinate around the contact of two circles whose radii
\* add up to limit: none, the 3-4-5 triangle, and one position unit less
\* and more than contact, to either side
ContactSteps(limit, part) ==
    {sign * d : sign \in {-1, 1},
                d \in {0, (part * limit) \div 5, limit - 1, limit, limit + 1}}

\* a.checkCollision(b) and b.checkCollision(a) for two game objects
Collide(a, b) ==
    /\ calc = NoCalc
    /\ calc' = [op |-> "checkCollision", a |-> a, b |-> b,
                ab |-> CheckCollision(a.position, a.radius, b.position, b.radius),
                ba |-> CheckCollision(b.position, b.radius, a.position, a.radius)]
    /\ UNCHANGED << gameVars, uiVars >>

\* ----------------------------------------------------------------- Minimap
MinimapSize == 200
MinimapMargin == 20

\* the worlds a host hands to the constructor
GameWorlds == {[width |-> 800, height |-> 600], [width |-> 2000, height |-> 2000]}

\* new Minimap(canvas, gameState, gameWorld), the fields the conversions read
Minimap(gameWorld) ==
    [x |-> Number(CanvasWidth - MinimapSize - MinimapMargin),
     y |-> Number(CanvasHeight - MinimapSize - MinimapMargin),
     size |-> Number(MinimapSize),
     scaleX |-> Over(Number(MinimapSize), Number(gameWorld.width)),
     scaleY |-> Over(Number(MinimapSize), Number(gameWorld.height))]

WorldToMinimapNoOffset(minimap, worldX, worldY) ==
    [x |-> Times(worldX, minimap.scaleX), y |-> Times(worldY, minimap.scaleY)]
WorldToMinimap(minimap, worldX, worldY) ==
    [x |-> Plus(minimap.x, Times(worldX, minimap.scaleX)),
     y |-> Plus(minimap.y, Times(worldY, minimap.scaleY))]

MinimapToWorld(minimap, minimapX, minimapY) ==
    [x |-> Over(Minus(minimapX, minimap.x), minimap.scaleX),
     y |-> Over(Minus(minimapY, minimap.y), minimap.scaleY)]

IsPointInMinimap(minimap, x, y) ==
    /\ AtMost(minimap.x, x) /\ AtMost(x, Plus(minimap.x, minimap.size))
    /\ AtMost(minimap.y, y) /\ AtMost(y, Plus(minimap.y, minimap.size))

\* the coordinates tried along an axis of length limit
WorldSteps(limit) == {-1, 0, 1, 3, limit \div 2, limit}
MinimapSteps == {0, 1, MinimapSize \div 2, MinimapSize}

\* worldToMinimap(p) and the way back
ConvertWorld(gameWorld, p) ==
    /\ calc = NoCalc
    /\ \E minimap \in {Minimap(gameWorld)} :
       \E q \in {WorldToMinimap(minimap, p.x, p.y)} :
          calc' = [op |-> "worldToMinimap", gameWorld |-> gameWorld, p |-> p, q |-> q,
                   back |-> MinimapToWorld(minimap, q.x, q.y),
                   inside |-> IsPointInMinimap(minimap, q.x, q.y)]
    /\ UNCHANGED << gameVars, uiVars >>

\* minimapToWorld(q) and the way back
ConvertMinimap(gameWorld, q) ==
    /\ calc = NoCalc
    /\ \E minimap \in {Minimap(gameWorld)} :
       \E p \in {MinimapToWorld(minimap, q.x, q.y)} :
          calc' = [op |-> "minimapToWorld", gameWorld |-> gameWorld, q |-> q, p |-> p,
                   back |-> WorldToMinimap(minimap, p.x, p.y)]
    /\ UNCHANGED << gameVars, uiVars >>

\* ------------------------------------------------------- the density grid
densityGridSize == 10

\* Math.ceil(a / b) and Math.floor(a / b) for whole a and b > 0
Ceil(a, b) == -((-a) \div b)
Floor(a, b) == a \div b

\* the world of the density grid and the places of its asteroids, in pixels:
\* in the first cell, on both sides of its borders, in the last cell (which
\* reaches beyond the world), and outside the grid on each side
GridWorld == [width |-> 25, height |-> 20]
GridPlaces ==
    {[x |-> 0, y |-> 0], [x |-> 9, y |-> 9], [x |-> 10, y |-> 9], [x |-> 9, y |-> 10],
     [x |-> 29, y |-> 19],
     [x |-> -1, y |-> 0], [x |-> 30, y |-> 0], [x |-> 0, y |-> 20], [x |-> 10, y |-> -10]}

\* the most asteroids in gameState.asteroids and the most calls of
\* updateDensityGrid on one minimap
MaxGridAsteroids == 2
MaxGridUpdates == 2

Asteroids(n) == UNION {[1 .. k -> GridPlaces] : k \in 0 .. n}

\* initializeDensityGrid(): gridHeight rows of gridWidth zeros
InitializeDensityGrid(gameWorld) ==
    [gridY \in 1 .. Ceil(gameWorld.height, densityGridSize) |->
        [gridX \in 1 .. Ceil(gameWorld.width, densityGridSize) |-> 0]]

\* row.fill(0) for every row
ResetGrid(densityGrid) ==
    [gridY \in DOMAIN densityGrid |-> [gridX \in DOMAIN densityGrid[gridY] |-> 0]]

\* the body of the forEach over the asteroids; densityGrid[gridY][gridX] of
\* the code is densityGrid[gridY + 1][gridX + 1] here
CountAsteroid(densityGrid, asteroid) ==
    IF /\ Floor(asteroid.x, densityGridSize) >= 0
       /\ Floor(asteroid.x, densityGridSize) < Len(densityGrid[1])
       /\ Floor(asteroid.y, densityGridSize) >= 0
       /\ Floor(asteroid.y, densityGridSize) < Len(densityGrid)
    THEN [densityGrid EXCEPT ![Floor(asteroid.y, densityGridSize) + 1]
                                  [Floor(asteroid.x, densityGridSize) + 1] = @ + 1]
    ELSE densityGrid

RECURSIVE CountAsteroids(_, _, _)
CountAsteroids(densityGrid, list, i) ==
    IF i > Len(list) THEN densityGrid
    ELSE CountAsteroids(CountAsteroid(densityGrid, list[i]), list, i + 1)

UpdateDensityGridNoReset(densityGrid, list) ==
    CountAsteroids(densityGrid, list, 1)
UpdateDensityGrid(densityGrid, list) ==
    CountAsteroids(ResetGrid(densityGrid), list, 1)

\* minimap.updateDensityGrid() with the asteroids the game state holds then,
\* on a new minimap or on the one of the call before
GridUpdate(list) ==
    /\ calc.op \in {"none", "updateDensityGrid"}
    /\ \E before \in {IF calc.op = "none"
                      THEN [densityGrid |-> InitializeDensityGrid(GridWorld), updates |-> 0]
                      ELSE [densityGrid |-> calc.densityGrid, updates |-> calc.updates]} :
          /\ before.updates < MaxGridUpdates
          /\ calc' = [op |-> "updateDensityGrid", asteroids |-> list,
                      densityGrid |-> UpdateDensityGrid(before.densityGrid, list),
                      updates |-> before.updates + 1]
    /\ UNCHANGED << gameVars, uiVars >>

\* ---------------------------------------------------- HUD.findNearestAsteroids
\* the player of the HUD's game state, when there is one, and the places of
\* its asteroids: at the player, two at the same distance 5, and two farther
NearPlayer == [x |-> 10, y |-> 10]
NearPlaces ==
    {[x |-> 10, y |-> 10], [x |-> 13, y |-> 14], [x |-> 15, y |-> 10],
     [x |-> 10, y |-> 0], [x |-> -20, y |-> 10]}

\* the most asteroids in gameState.asteroids
MaxNearAsteroids == 3

\* Math.sqrt(Math.pow(dx, 2) + Math.pow(dy, 2)), kept as its square: for
\* whole pixels the root is increasing without ties, so differences of
\* distances have the sign of the differences of their squares
Distance(asteroid, player) ==
    (asteroid.x - player.x) * (asteroid.x - player.x)
        + (asteroid.y - player.y) * (asteroid.y - player.y)

\* .map(asteroid => ({...asteroid, distance})): a new array of new objects
WithDistance(list, player) ==
    [i \in DOMAIN list |->
        [x |-> list[i].x, y |-> list[i].y, distance |-> Distance(list[i], player)]]

\* .sort((a, b) => a.distance - b.distance): stable, equal distances keep
\* their order
InsertByDistance(item, sorted) ==
    SelectSeq(sorted, LAMBDA a : a.distance < item.distance)
        \o << item >> \o SelectSeq(sorted, LAMBDA a : a.distance >= item.distance)

RECURSIVE SortByDistance(_)
SortByDistance(list) ==
    IF Len(list) <= 1 THEN list
    ELSE Then(SortByDistance(Tail(list)), LAMBDA sorted : InsertByDistance(Head(list), sorted))

\* .slice(0, count) for a whole count >= 0
Slice(list, count) == SubSeq(list, 1, IF count < Len(list) THEN count ELSE Len(list))

\* findNearestAsteroids(count): the array returned and gameState.asteroids
\* after the call
FindNearestAsteroidsUnsorted(state, count) ==
    IF state.player = Undefined
    THEN [asteroids |-> state.asteroids, result |-> << >>]
    ELSE [asteroids |-> state.asteroids,
          result |-> Slice(WithDistance(state.asteroids, state.player[1]), count)]
FindNearestAsteroids(state, count) ==
    IF state.player = Undefined
    THEN [asteroids |-> state.asteroids, result |-> << >>]
    ELSE [asteroids |-> state.asteroids,
          result |-> Slice(SortByDistance(WithDistance(state.asteroids, state.player[1])), count)]

FindNearest(state, count) ==
    /\ calc = NoCalc
    /\ \E found \in {FindNearestAsteroids(state, count)} :
          calc' = [asteroids |-> found.asteroids, count |-> count,
                   op |-> "findNearestAsteroids", state |-> state,
                   result |-> found.result]
    /\ UNCHANGED << gameVars, uiVars >>

NextCalc ==
    \/ \E ra, rb \in Radii :
       \E dx \in ContactSteps(Px(ra + rb), 3), dy \in ContactSteps(Px(ra + rb), 4) :
          Collide([position |-> Centre, radius |-> ra],
                  [position |-> Add(Centre, Vector2D(dx, dy)), radius |-> rb])
    \/ \E gameWorld \in GameWorlds :
       \E x \in WorldSteps(gameWorld.width), y \in WorldSteps(gameWorld.height) :
          ConvertWorld(gameWorld, Vector2D(Number(x), Number(y)))
    \/ \E gameWorld \in GameWorlds :
       \E x \in MinimapSteps, y \in MinimapSteps :
          ConvertMinimap(gameWorld,
                         Vector2D(Number(CanvasWidth - MinimapSize - MinimapMargin + x),
                                  Number(CanvasHeight - MinimapSize - MinimapMargin + y)))
    \/ \E list \in Asteroids(MaxGridAsteroids) : GridUpdate(list)
    \/ \E player \in {Undefined, Defined(NearPlayer)} :
       \E list \in UNION {[1 .. k -> NearPlaces] : k \in 0 .. MaxNearAsteroids} :
       \E count \in 0 .. MaxNearAsteroids + 1 :
          FindNearest([asteroids |-> list, player |-> player], count)

SpecCalc == Init /\ [][NextCalc]_vars

\* ------------------------------------------- the ship in rounded numbers
\* The velocity of the ship is a pair of JavaScript numbers: Ship.thrust,
\* Ship.update and Vector2D compute with them, every operation rounded.
\* Here a ship is its velocity as numbers and its rotation in 1/AngleUnit
\* rad (the position is left out), and calc keeps the ship of a run of calls
\* on one Ship object, the ship before the last call and what that call
\* added to the velocity.

\* a > b
Greater(a, b) == ~AtMost(a, b)

\* a / 2
Halved(a) == IF a.m = 0 THEN a ELSE [a EXCEPT !.e = @ - 1]

\* Math.sqrt(a) for a >= 0: the root of the significand, taken with an even
\* exponent, to MantissaBits + 1 digits or more and one digit that is 1 when
\* the root is not exact, then rounded
SquareRoot(a) ==
    IF a.m = 0 THEN Zero
    ELSE LET k == IF (a.e - MantissaBits) % 2 = 0 THEN MantissaBits + 2
                  ELSE MantissaBits + 3
         IN  Then(ISqrtIn(a.m * Pow2(k), 0, 46340),
                  LAMBDA r : Round(2 * r + (IF r * r = a.m * Pow2(k) THEN 0 ELSE 1),
                                   (a.e - k) \div 2 - 1))

\* Vector2D.multiply(scalar) and Vector2D.add(v) on numbers
MultiplyRounded(v, scalar) == Vector2D(Times(v.x, scalar), Times(v.y, scalar))
AddRounded(v, w) == Vector2D(Plus(v.x, w.x), Plus(v.y, w.y))

\* Vector2D.magnitude() on numbers
MagnitudeRounded(v) == SquareRoot(Plus(Times(v.x, v.x), Times(v.y, v.y)))

\* new Vector2D(Math.cos(rotation), Math.sin(rotation)) as numbers
DirectionRounded(rotation) ==
    Vector2D(Over(Number(Cos(rotation)), Number(TrigScale)),
             Over(Number(Sin(rotation)), Number(TrigScale)))

\* deltaTime of dt ticks as a number
DeltaTime(dt) == Over(Number(dt), Number(TicksPerSecond))

\* the vector that thrust(forward, deltaTime) adds to the velocity
ThrustVector(s, forward, dt) ==
    MultiplyRounded(DirectionRounded(s.rotation),
                    Times(Times(Number(ThrustPower), DeltaTime(dt)),
                          IF forward THEN Number(1) ELSE Negate(Halved(Number(1)))))

\* thrust(forward, deltaTime) without the test of the speed
ThrustRoundedNoLimit(s, forward, dt) ==
    [s EXCEPT !.velocity = AddRounded(@, ThrustVector(s, forward, dt))]
\* Ship.thrust(forward, deltaTime) on numbers
ThrustRounded(s, forward, dt) ==
    Then(AddRounded(s.velocity, ThrustVector(s, forward, dt)),
         LAMBDA velocity :
            Then(MagnitudeRounded(velocity),
                 LAMBDA speed :
                    IF Greater(speed, Number(MaxSpeed))
                    THEN [s EXCEPT !.velocity =
                             MultiplyRounded(velocity, Over(Number(MaxSpeed), speed))]
                    ELSE [s EXCEPT !.velocity = velocity]))

\* Ship.update(deltaTime) on numbers: the velocity times 0.99
ShipUpdateRounded(s, dt) ==
    [s EXCEPT !.velocity = MultiplyRounded(@, Over(Number(99), Number(100)))]

\* Ship.respawn(x, y) on numbers
RespawnRounded(s) == [s EXCEPT !.velocity = Vector2D(Zero, Zero), !.rotation = 0]

\* new Ship(x, y) on numbers
ShipRounded == [rotation |-> 0, velocity |-> Vector2D(Zero, Zero)]

\* the ship after n frames of deltaTime dt with the key w down
RECURSIVE Cruise(_, _, _)
Cruise(s, dt, n) ==
    IF n = 0 THEN s
    ELSE Then(ShipUpdateRounded(ThrustRounded(s, TRUE, dt), dt),
              LAMBDA t : Cruise(t, dt, n - 1))

\* the deltaTime of the calls, the frames of thrust behind the ships a run
\* starts with and their rotations, and the most calls of a run
ShipDeltas == {2, 3}
CruiseFrames == {0, 15}
CruiseRotations == {0, 15}
MaxShipCalls == 3

\* the ships a run starts with: new, or turned and then flown with the key w
\* down
ShipStarts ==
    {Cruise([ShipRounded EXCEPT !.rotation = r], 3, n) :
        r \in CruiseRotations, n \in CruiseFrames}

\* calc after a call that took the ship from before to s
Called(op, before, s, forward, dt, added) ==
    [op |-> op, ship |-> s, before |-> before, forward |-> forward, deltaTime |-> dt,
     added |-> added, calls |-> IF calc = NoCalc THEN 0 ELSE calc.calls + 1]

\* a run starts with the ship s
ShipNew(s) ==
    /\ calc = NoCalc
    /\ calc' = Called("Ship", s, s, FALSE, 0, Vector2D(Zero, Zero))
    /\ UNCHANGED << gameVars, uiVars >>

\* a call can follow
ShipCallable == calc # NoCalc /\ calc.calls < MaxShipCalls

\* ship.thrust(forward, deltaTime)
ShipThrust(forward, dt) ==
    /\ ShipCallable
    /\ calc' = Called("thrust", calc.ship, ThrustRounded(calc.ship, forward, dt), forward,
                      dt, ThrustVector(calc.ship, forward, dt))
    /\ UNCHANGED << gameVars, uiVars >>

\* ship.rotate(direction, deltaTime)
ShipRotate(direction, dt) ==
    /\ ShipCallable
    /\ Abs(Rotate(calc.ship, direction, dt).rotation) < Len(CosTable)
    /\ calc' = Called("rotate", calc.ship, Rotate(calc.ship, direction, dt), FALSE, dt,
                      Vector2D(Zero, Zero))
    /\ UNCHANGED << gameVars, uiVars >>

\* ship.update(deltaTime)
ShipUpdated(dt) ==
    /\ ShipCallable
    /\ calc' = Called("update", calc.ship, ShipUpdateRounded(calc.ship, dt), FALSE, dt,
                      Vector2D(Zero, Zero))
    /\ UNCHANGED << gameVars, uiVars >>

\* ship.respawn(x, y)
ShipRespawn ==
    /\ ShipCallable
    /\ calc' = Called("respawn", calc.ship, RespawnRounded(calc.ship), FALSE, 0,
                      Vector2D(Zero, Zero))
    /\ UNCHANGED << gameVars, uiVars >>

NextShip ==
    \/ \E s \in ShipStarts : ShipNew(s)
    \/ \E forward \in BOOLEAN, dt \in ShipDeltas : ShipThrust(forward, dt)
    \/ \E direction \in {-1, 1}, dt \in ShipDeltas : ShipRotate(direction, dt)
    \/ \E dt \in ShipDeltas : ShipUpdated(dt)
    \/ ShipRespawn

SpecShip == Init /\ [][NextShip]_vars

\* ------------------------------------------------------------------ claims
\* the initial state of a game, in the numbers of the claims
InitialState ==
    /\ score = 0
    /\ lives = 5
    /\ gameOver = FALSE
    /\ bullets = << >>
    /\ Len(asteroids) = 5
    /\ \A i \in DOMAIN asteroids : asteroids[i].size = "large"
    /\ screenHidden = TRUE

\* C1: after the construction of the Game and after every reset() the game
\* is in the initial state: score 0, 5 lives, not over, no bullet, exactly 5
\* asteroids, all large, and the game-over screen hidden.
C1_InitialState == InitialState /\ [][resets' # resets => InitialState']_vars

\* C1 witness: a reset() has just run after a game that had scored
C1_ResetDone ==
    /\ resets > 0
    /\ ~obs.ran
    /\ InitialState
    /\ scoreText = "0"
    /\ finalScoreText \notin {"", "0"}

\* C2 as stated: in an update of a game that is not over, lives goes down by
\* exactly 1 if the ship is not invulnerable and overlaps at least one
\* asteroid after the movement, and is unchanged otherwise.
C2_LifePerOverlapAfterMovement ==
    obs.ran => lives = (IF obs.vulnerable /\ obs.touched >= 1
                        THEN obs.lives0 - 1 ELSE obs.lives0)

\* C2 amended: in an update of a game that is not over, lives goes down by
\* exactly 1 if the ship is not invulnerable and overlaps at least one of the
\* asteroids left after the bullets' hits of that update (the asteroids hit
\* removed, their fragments added), however many it overlaps, and is
\* unchanged otherwise.
C2_LifePerOverlapAfterHits ==
    obs.ran => /\ lives = (IF obs.vulnerable /\ obs.struck >= 1
                           THEN obs.lives0 - 1 ELSE obs.lives0)
               /\ obs.lifeLost = (obs.vulnerable /\ obs.struck >= 1)

\* C2 witness: the ship overlapped two asteroids and lost one life
C2_TwoOverlapsOneLife ==
    /\ obs.ran
    /\ obs.vulnerable
    /\ obs.struck >= 2
    /\ lives = obs.lives0 - 1

\* C3: after a respawn the ship is invulnerable for 3 s of simulated time (the
\* sum of deltaTime of the executed updates): no life is lost before 3 s have
\* passed since the last life lost in the same game.
C3_InvulnerableThreeSeconds ==
    /\ obs.lifeLost /\ obs.loss0 >= 0 => simTime - obs.loss0 >= 3 * TicksPerSecond
    /\ lastLoss >= 0 /\ ~gameOver /\ simTime - lastLoss < 3 * TicksPerSecond
          => ship.invulnerable

\* C3 witness: a life lost exactly 3 s after the one before
C3_LossAtThreeSeconds ==
    /\ obs.lifeLost
    /\ obs.loss0 >= 0
    /\ simTime - obs.loss0 = 3 * TicksPerSecond
    /\ lives = 3

\* the points of C4 for an asteroid of a size
HitPoints(size) == CASE size = "large" -> 20 [] size = "medium" -> 50 [] size = "small" -> 100

\* the points of C4 for the hits i .. Len(hits) of an update
RECURSIVE SumPoints(_, _)
SumPoints(hits, i) ==
    IF i > Len(hits) THEN 0 ELSE HitPoints(hits[i].size) + SumPoints(hits, i + 1)

RECURSIVE SumGrowth(_, _)
SumGrowth(hits, i) ==
    IF i > Len(hits) THEN 0
    ELSE (IF hits[i].size = "small" THEN -1 ELSE 1) + SumGrowth(hits, i + 1)

\* C6: a hit removes the asteroid from asteroids and puts its fragments
\* there: two medium asteroids for a large one, two small ones for a medium
\* one, none for a small one, each created at the position the parent has at
\* the hit.  (A fragment can itself be hit by a later bullet of the update.)
C6_FragmentsReplaceParent ==
    [][lastTime' # lastTime /\ obs'.ran =>
          /\ \A k \in DOMAIN obs'.hits :
                LET hit == obs'.hits[k]
                IN  /\ Len(hit.fragments) = (IF hit.size = "small" THEN 0 ELSE 2)
                    /\ \A f \in DOMAIN hit.fragments :
                          /\ hit.fragments[f].size =
                                (IF hit.size = "large" THEN "medium" ELSE "small")
                          /\ hit.fragments[f].position = hit.position
                          /\ \/ hit.fragments[f] \in Range(asteroids')
                             \/ \E l \in DOMAIN obs'.hits :
                                   /\ l > k
                                   /\ obs'.hits[l].size = hit.fragments[f].size
                                   /\ obs'.hits[l].position = hit.position
          /\ obs'.spawned = 0 =>
                Len(asteroids') = Len(asteroids) + SumGrowth(obs'.hits, 1)]_vars

\* C6 witness: a medium asteroid was hit and its two small fragments are
\* among the asteroids, at the place of the hit
C6_MediumSplit ==
    \E k \in DOMAIN obs.hits :
        /\ obs.hits[k].size = "medium"
        /\ Len(obs.hits[k].fragments) = 2
        /\ \A f \in DOMAIN obs.hits[k].fragments :
              /\ obs.hits[k].fragments[f] \in Range(asteroids)
              /\ obs.hits[k].fragments[f].size = "small"
              /\ obs.hits[k].fragments[f].position = obs.hits[k].position

\* C7: R pressed while the game is over restarts the game into the initial
\* state (5 lives, score 0, not over, the screen hidden, a new wave of 5 large
\* asteroids); R pressed while the game is not over changes nothing of the
\* game but the entry 'r' of keys.
C7_RestartOnlyWhenOver ==
    [][KeyDown("r") \/ KeyDown("R") =>
          IF gameOver
          THEN /\ lives' = 5
               /\ score' = 0
               /\ gameOver' = FALSE
               /\ screenHidden' = TRUE
               /\ Len(asteroids') = 5
               /\ \A i \in DOMAIN asteroids' :
                     /\ asteroids'[i].size = "large"
                     /\ ~Within(asteroids'[i].position, ship'.position, Px(150))
          ELSE /\ UNCHANGED << ship, bullets, asteroids, score, lives, gameOver,
                               canShoot, shootCooldown, lastTime, scoreText,
                               livesText, finalScoreText, screenHidden >>
               /\ \A k \in KeyNames \ {"r"} : keys'[k] = keys[k]]_vars

\* C7 witness: the game restarted by R runs again, the key still down
C7_Restarted ==
    /\ resets = 1
    /\ keys["r"]
    /\ obs.ran
    /\ ~gameOver
    /\ screenHidden
    /\ lives = 5

\* C8: the game-over screen is visible exactly when gameOver is true (endGame
\* sets gameOver, shows the screen and writes the score as the final score;
\* reset hides the screen), gameOver holds exactly when lives = 0, and lives
\* is always between 0 and 5.
C8_ScreenIffOver ==
    /\ screenHidden = ~gameOver
    /\ gameOver = (lives = 0)
    /\ lives \in 0 .. 5
    /\ gameOver => finalScoreText = ToString(score)

\* C8 witness: the game is over with a score, the screen shows it
C8_OverWithScore ==
    /\ gameOver
    /\ lives = 0
    /\ ~screenHidden
    /\ score > 0
    /\ finalScoreText = ToString(score)

\* C9: the texts of #score and #lives are score and lives after every frame
\* and after every key event.
C9_DisplayShowsState ==
    /\ scoreText = ToString(score)
    /\ livesText = ToString(lives)

\* C9 witness: after an update in which score and lives both changed
C9_BothChanged ==
    /\ obs.ran
    /\ score > obs.score0
    /\ lives < obs.lives0
    /\ scoreText = ToString(score)
    /\ livesText = ToString(lives)

\* C10 as stated: a press of the spacebar during play with the gun armed adds
\* exactly one bullet, whatever the order of its keydown, its keyup and the
\* frames: at most one bullet while the key is down, and one bullet once the
\* key has gone up and an update has run; the bullet is created at the
\* position of the ship, with the velocity of the ship's rotation.
C10_OneBulletPerPress ==
    /\ press.held => press.shots <= 1
    /\ press.settled => press.shots = 1
    /\ obs.fired =>
          /\ obs.shot[1].position = obs.shooter[1].position
          /\ obs.shot[1].velocity =
                Vector2D(RoundDiv(Cos(obs.shooter[1].rotation) * BulletSpeed * SubPixel,
                                  TrigScale),
                         RoundDiv(Sin(obs.shooter[1].rotation) * BulletSpeed * SubPixel,
                                  TrigScale))

\* C11: when asteroids is empty at the end of an update, a new wave of
\* exactly min(7, 5 + floor(score / 1000)) large asteroids is spawned: between
\* 5 and 7 asteroids, and never fewer than in an earlier wave of the game.
C11_ProgressiveWaves ==
    /\ [](started => asteroids # << >>)
    /\ [][lastTime' # lastTime /\ obs'.ran
             /\ Len(asteroids) + SumGrowth(obs'.hits, 1) = 0 =>
          /\ Len(asteroids') =
                (IF 5 + (score' \div 1000) < 7 THEN 5 + (score' \div 1000) ELSE 7)
          /\ \A i \in DOMAIN asteroids' : asteroids'[i].size = "large"
          /\ Len(asteroids') \in 5 .. 7
          /\ \A i \in DOMAIN waves : waves[i] <= Len(asteroids')
          /\ waves' = Append(waves, Len(asteroids'))]_vars

\* C11 witness: the third wave of a game has ended, the fourth has 7 asteroids
C11_FourthWave ==
    /\ obs.ran
    /\ obs.spawned = 7
    /\ waves = << 5, 7, 7, 7 >>
    /\ Len(asteroids) = 7
    /\ score > 9000

\* a position wrapped as C12 says
EdgeWrap(p) ==
    Vector2D(IF p.x < 0 THEN Px(800) ELSE IF p.x > Px(800) THEN 0 ELSE p.x,
             IF p.y < 0 THEN Px(600) ELSE IF p.y > Px(600) THEN 0 ELSE p.y)

\* the position C12 gives an object after an update of dt
Wrapped(object, dt) ==
    EdgeWrap(Add(object.position, Multiply(object.velocity, dt, TicksPerSecond)))

\* C12: after every update the position of the ship, of every bullet and of
\* every asteroid is within 0 .. width and 0 .. height; a coordinate that the
\* movement takes below 0 becomes the opposite edge, one that it takes above
\* the maximum becomes 0.  (Stated for the frames after the first, for the
\* ship when it neither thrusts nor respawns, and for the bullets and
\* asteroids of an update without hits, shots, expired bullets or a new wave,
\* where the lists keep their order.)
C12_WrapAtEdges ==
    /\ [](\A p \in {ship.position} \cup {bullets[i].position : i \in DOMAIN bullets}
                   \cup {asteroids[i].position : i \in DOMAIN asteroids} :
             /\ 0 <= p.x /\ p.x <= Px(800)
             /\ 0 <= p.y /\ p.y <= Px(600))
    /\ [][started /\ lastTime' # lastTime /\ obs'.ran =>
          /\ ~keys["w"] /\ ~keys["s"] /\ ~obs'.lifeLost =>
                ship'.position = Wrapped(ship, lastTime' - lastTime)
          /\ obs'.hits = << >> /\ obs'.spawned = 0 =>
                /\ Len(asteroids') = Len(asteroids)
                /\ \A i \in DOMAIN asteroids :
                      asteroids'[i].position = Wrapped(asteroids[i], lastTime' - lastTime)
          /\ obs'.hits = << >> /\ ~obs'.fired /\ Len(bullets') = Len(bullets) =>
                \A i \in DOMAIN bullets :
                   bullets'[i].position = Wrapped(bullets[i], lastTime' - lastTime)]_vars

\* C12 witness: the ship has left the field on the left and is on the right
\* edge, after a bullet it shot towards the right
C12_ShipWrapped ==
    /\ obs.ran
    /\ obs.fired
    /\ ship.velocity.x < 0
    /\ ship.position.x = Px(800)

\* C13: every call of gameLoop leaves exactly one frame requested, whether it
\* updated the game or dropped the frame and whether the game is over, so one
\* request is outstanding at all times after start(); and after every frame
\* another frame is processed, as long as the clock of the model runs
C13_LoopNeverStops ==
    /\ [](started => pending = 1)
    /\ [][lastTime' # lastTime => pending' = 1]_vars
    /\ <>[](started /\ lastTime + 3 > MaxLongTime)

\* C13 witness: a frame was dropped, the game is over, and a frame is requested
C13_RequestedAfterDropAndOver ==
    started /\ skipped > 0 /\ gameOver /\ obs = Idle /\ pending = 1 /\ lastTime > LiveFrom + 6

\* C14 as stated: over any sequence of updates, key events, game overs and
\* restarts every collection of the UI stays below a fixed bound: at most
\* maxMessages live messages, at most the two keydown listeners of the UI,
\* and a message history that stays below the number of messages a run of
\* the model may show
C14_CollectionsBounded ==
    /\ Len(uiManager.messages) <= maxMessages
    /\ Len(listeners) <= 2
    /\ Len(uiManager.messageHistory) < MaxHistory

\* the numbers of the messages of a queue, in its order
Numbers(queue) == [i \in DOMAIN queue |-> queue[i].no]

\* a queue without the messages of the given numbers
Without(queue, numbers) == SelectSeq(queue, LAMBDA m : m.no \notin numbers)

\* the n newest entries of a queue
Newest(queue, n) ==
    IF Len(queue) > n THEN SubSeq(queue, Len(queue) - n + 1, Len(queue)) ELSE queue

\* C15: the queue never holds more than maxMessages = 3 messages; after a
\* call that showed messages it holds the newest three of the messages that
\* were live and the messages shown, in the order of their insertion, so the
\* messages dropped are the oldest
C15_QueueCapped ==
    /\ [](maxMessages = 3 /\ Len(uiManager.messages) <= maxMessages)
    /\ [][uiObs'.raised # << >> =>
             Numbers(uiManager.messages') =
                Newest(Numbers(Without(uiManager.messages, uiObs'.expired))
                          \o Numbers(uiObs'.raised), 3)]_vars

\* C15 witness: a fourth message was shown to a full queue; the oldest is
\* gone, the second is now first and the new one is last
C15_FourthDropsOldest ==
    /\ uiObs.op = "show"
    /\ Len(uiObs.messages0) = 3
    /\ Len(uiManager.messages) = 3
    /\ uiObs.messages0[1].no \notin Range(Numbers(uiManager.messages))
    /\ uiManager.messages[1].no = uiObs.messages0[2].no
    /\ uiManager.messages[3].no = uiObs.raised[1].no

Texts(queue) == [i \in DOMAIN queue |-> queue[i].text]

\* C17 as stated: after every update gameState.messages is the list of the
\* texts of the messages in UIManager.messages, in the same order, the
\* messages raised during that update included
C17_MessagesMirrored ==
    uiObs.op = "update" => gameState.messages = Texts(uiManager.messages)

\* C18: a keydown of H flips showControls, one of F1 flips debugMode, one of
\* ESC flips paused and passes the new value to gameState.setPaused when the
\* host has installed it; each leaves the other two flags as they were, any
\* other key leaves all three, and the same shortcut pressed twice in a row
\* leaves the flags as they were before the first press
C18_ShortcutsToggle ==
    [][uiObs'.op = "key" =>
          /\ uiManager'.showControls =
                IF uiObs'.key \in {"h", "H"}
                THEN ~uiManager.showControls ELSE uiManager.showControls
          /\ uiManager'.debugMode =
                IF uiObs'.key = "F1" THEN ~uiManager.debugMode ELSE uiManager.debugMode
          /\ uiManager'.paused =
                IF uiObs'.key = "Escape" THEN ~uiManager.paused ELSE uiManager.paused
          /\ gameState'.pausedSet =
                IF uiObs'.key = "Escape" /\ gameState.setPaused
                THEN Defined(~uiManager.paused) ELSE gameState.pausedSet
          /\ uiHist.lastKey # Undefined /\ uiHist'.lastKey[1].key = uiHist.lastKey[1].key
                => Flags(uiManager') = uiHist.lastKey[1].flags0]_vars

\* C18 witness: ESC pressed twice in a row: the game was paused before the
\* second press and is not paused after it, and setPaused was told so
C18_EscapeTwice ==
    /\ uiObs.op = "key"
    /\ uiObs.key = "Escape"
    /\ uiObs.lastKey0 # Undefined
    /\ uiObs.lastKey0[1].key = "escape"
    /\ uiObs.flags0 = << FALSE, FALSE, TRUE >>
    /\ Flags(uiManager) = << FALSE, FALSE, FALSE >>
    /\ gameState.pausedSet = Defined(FALSE)

\* the texts and durations of the messages a call has shown, in their order
Announced(raised) == [i \in DOMAIN raised |-> << raised[i].text, raised[i].duration >>]

\* the message of a squadron mode, if it is expected, and the one of a wave
ModeNotice(expected, mode) ==
    IF expected THEN << << "Squadron Mode: " \o ToUpperCase(mode), 2000 >> >> ELSE << >>
WaveNotice(expected, wave) ==
    IF expected THEN << << "WAVE " \o ToString(wave), 3000 >> >> ELSE << >>

\* C19 as stated: an update raises one 'Squadron Mode' message of 2000 ms and
\* starts a HUD flash of 500 ms when squadronMode differs from the value seen
\* at the previous update (counting the first update of a UI, which has seen
\* no value, as a change), and one 'WAVE n' message of 3000 ms when wave
\* differs from the wave seen at the previous update, the first update after
\* construction or reset() excepted; it raises no other message
C19_ChangesNotified ==
    [][uiObs'.op = "update" =>
          /\ Announced(uiObs'.raised) =
                ModeNotice(uiHist.seen = Undefined
                              \/ uiHist.seen[1].mode # gameState.squadronMode,
                           gameState.squadronMode)
                \o WaveNotice(~uiHist.fresh /\ uiHist.seen[1].wave # gameState.wave,
                              gameState.wave)
          /\ uiHist.seen = Undefined \/ uiHist.seen[1].mode # gameState.squadronMode
                => hud'.modeChangeFlash = 500]_vars

\* C20: after every update that runs with gameState.gameOver true the
\* game-over screen is shown; while it is shown its final score and waves
\* completed are those gameState had when this showing began, whatever the
\* host has changed since; and a render while it is shown draws the
\* game-over screen and nothing else
C20_GameOverScreenShown ==
    /\ [][uiObs'.op = "update" /\ gameState.gameOver => gameOverScreen'.isVisible]_vars
    /\ [](gameOverScreen.isVisible =>
             /\ uiHist.stats # Undefined
             /\ gameOverScreen.statistics.finalScore = uiHist.stats[1].score
             /\ gameOverScreen.statistics.wavesCompleted = uiHist.stats[1].wave)
    /\ [](uiObs.op = "render" /\ gameOverScreen.isVisible =>
             uiObs.drawn = {"gameOverScreen"})

\* C20 witness: the game ended in wave 2 with 100 points, the host has moved
\* gameState on since, and the screen is rendered alone with the old numbers
C20_RenderedWithFinalStats ==
    /\ uiObs.op = "render"
    /\ gameState.gameOver
    /\ gameOverScreen.isVisible
    /\ gameOverScreen.showTime > 0
    /\ uiObs.drawn = {"gameOverScreen"}
    /\ gameOverScreen.statistics.finalScore = 100
    /\ gameOverScreen.statistics.wavesCompleted = 2
    /\ gameState.score = 200
    /\ gameState.wave = 3

\* the registrations of the keydown handler of the game-over screen
Registrations == Len(SelectSeq(listeners, LAMBDA l : l = "GameOverScreen"))

\* C21: the keydown handler of the game-over screen is registered exactly
\* while the screen is visible, and once only, however often show() is
\* called; a keydown of R while the screen is visible hides it and calls
\* gameState.restart once (when the host has installed it), and no other
\* call or key, in particular no R while the screen is hidden, calls it
C21_RestartOnlyWhenShown ==
    /\ [](Registrations = IF gameOverScreen.isVisible THEN 1 ELSE 0)
    /\ [][uiVars' # uiVars =>
             /\ uiObs'.restarts =
                   IF /\ uiObs'.op = "key"
                      /\ uiObs'.key \in {"r", "R"}
                      /\ gameOverScreen.isVisible
                      /\ gameState.restart
                   THEN 1 ELSE 0
             /\ uiObs'.op = "key" /\ uiObs'.key \in {"r", "R"}
                   => ~gameOverScreen'.isVisible]_vars

\* C21 witness: R was pressed while the screen was visible; the screen is
\* hidden, restart was called once and only the listener of the UIManager
\* is left
C21_RestartedByR ==
    /\ uiObs.op = "key"
    /\ uiObs.key = "r"
    /\ uiObs.visible0
    /\ uiObs.restarts = 1
    /\ ~gameOverScreen.isVisible
    /\ listeners = << "UIManager" >>

C23_ConversionsInverse ==
    /\ calc.op = "worldToMinimap" =>
          /\ calc.back = calc.p
          /\ AtMost(Zero, calc.p.x) /\ AtMost(calc.p.x, Number(calc.gameWorld.width))
             /\ AtMost(Zero, calc.p.y) /\ AtMost(calc.p.y, Number(calc.gameWorld.height))
             => calc.inside
    /\ calc.op = "minimapToWorld" => calc.back = calc.q

\* C23, amended: the conversions are inverse up to the rounding of the
\* arithmetic.  With a significand of MantissaBits bits the way there and back
\* moves a world coordinate by less than the world's extent times
\* 2^(3 - MantissaBits) and a minimap coordinate by less than
\* 2^(10 - MantissaBits) pixels; a world point inside the world maps to a point
\* inside the minimap.
C23_ConversionsInverseRounded ==
    /\ calc.op = "worldToMinimap" =>
          /\ Closer(calc.back.x, calc.p.x, calc.gameWorld.width, 3)
          /\ Closer(calc.back.y, calc.p.y, calc.gameWorld.height, 3)
          /\ AtMost(Zero, calc.p.x) /\ AtMost(calc.p.x, Number(calc.gameWorld.width))
             /\ AtMost(Zero, calc.p.y) /\ AtMost(calc.p.y, Number(calc.gameWorld.height))
             => calc.inside
    /\ calc.op = "minimapToWorld" =>
          /\ Closer(calc.back.x, calc.q.x, 1, 10)
          /\ Closer(calc.back.y, calc.q.y, 1, 10)

\* world point (1, 1) of the 800 x 600 world: x comes back as 1, y does not,
\* and the minimap point lies inside the minimap
C23_RoundedOnTheWayBack ==
    /\ calc.op = "worldToMinimap"
    /\ calc.gameWorld = [width |-> 800, height |-> 600]
    /\ calc.p = Vector2D(Number(1), Number(1))
    /\ calc.back.x = Number(1)
    /\ calc.back.y # Number(1)
    /\ calc.inside

\* the asteroids (by index) that updateDensityGrid counts in cell gridX, gridY
InCell(list, gridX, gridY) ==
    {i \in DOMAIN list : /\ Floor(list[i].x, densityGridSize) = gridX
                              /\ Floor(list[i].y, densityGridSize) = gridY}

RECURSIVE SumRow(_, _)
SumRow(row, i) == IF i > Len(row) THEN 0 ELSE row[i] + SumRow(row, i + 1)

RECURSIVE SumGrid(_, _)
SumGrid(densityGrid, i) ==
    IF i > Len(densityGrid) THEN 0
    ELSE SumRow(densityGrid[i], 1) + SumGrid(densityGrid, i + 1)

\* C24: after every updateDensityGrid the grid counts the current asteroids
\* only: every cell holds the number of current asteroids whose cell indices
\* are that cell (nothing from earlier calls, nothing from asteroids outside
\* the grid, every asteroid inside in exactly one cell), and the sum of all
\* cells is the number of asteroids inside the grid.
C24_GridCountsCurrent ==
    calc.op = "updateDensityGrid" =>
        /\ \A gridY \in DOMAIN calc.densityGrid : \A gridX \in DOMAIN calc.densityGrid[gridY] :
              calc.densityGrid[gridY][gridX]
                  = Cardinality(InCell(calc.asteroids, gridX - 1, gridY - 1))
        /\ SumGrid(calc.densityGrid, 1)
              = Cardinality({i \in DOMAIN calc.asteroids :
                                /\ calc.asteroids[i].x >= 0
                                /\ calc.asteroids[i].x < densityGridSize * Len(calc.densityGrid[1])
                                /\ calc.asteroids[i].y >= 0
                                /\ calc.asteroids[i].y < densityGridSize * Len(calc.densityGrid)})

\* the second update of a minimap, with one asteroid in the last cell (beyond
\* the world's right edge) and one outside the grid: the 3 x 2 grid holds
\* that one count and nothing of the update before
C24_SecondUpdateCountsOne ==
    /\ calc.op = "updateDensityGrid"
    /\ calc.updates = 2
    /\ calc.asteroids = << [x |-> 29, y |-> 19], [x |-> 30, y |-> 0] >>
    /\ calc.densityGrid = << << 0, 0, 0 >>, << 0, 0, 1 >> >>

\* the ways to name, for each entry of the result, the asteroid it came from
Origins(result, list) ==
    {f \in [DOMAIN result -> DOMAIN list] :
        /\ \A i, j \in DOMAIN result : i # j => f[i] # f[j]
        /\ \A i \in DOMAIN result :
              result[i].x = list[f[i]].x /\ result[i].y = list[f[i]].y}

\* C25: findNearestAsteroids(count) returns the asteroids nearest to the
\* player: min(count, number of asteroids) entries, each a different asteroid
\* of gameState.asteroids, in order of non-decreasing distance to the player,
\* no asteroid left out strictly nearer than one returned; gameState.asteroids
\* is as before the call; without a player the result is empty.
C25_NearestAsteroids ==
    calc.op = "findNearestAsteroids" =>
        /\ calc.asteroids = calc.state.asteroids
        /\ calc.state.player = Undefined => calc.result = << >>
        /\ calc.state.player # Undefined =>
              /\ Len(calc.result) = IF calc.count < Len(calc.state.asteroids)
                                    THEN calc.count ELSE Len(calc.state.asteroids)
              /\ \A i, j \in DOMAIN calc.result :
                    i < j => Distance(calc.result[i], calc.state.player[1])
                                <= Distance(calc.result[j], calc.state.player[1])
              /\ \E f \in Origins(calc.result, calc.state.asteroids) :
                    \A k \in DOMAIN calc.state.asteroids :
                        (\A i \in DOMAIN calc.result : f[i] # k) =>
                            \A i \in DOMAIN calc.result :
                                Distance(calc.state.asteroids[k], calc.state.player[1])
                                    >= Distance(calc.result[i], calc.state.player[1])

\* two of three asteroids asked for, the nearest last in gameState.asteroids:
\* it comes first in the result, the farthest is left out, the array is as it
\* was
C25_NearestTwoOfThree ==
    /\ calc.op = "findNearestAsteroids"
    /\ calc.count = 2
    /\ calc.state.player = Defined(NearPlayer)
    /\ calc.state.asteroids = << [x |-> -20, y |-> 10], [x |-> 13, y |-> 14], [x |-> 10, y |-> 10] >>
    /\ calc.asteroids = calc.state.asteroids
    /\ calc.result = << [x |-> 10, y |-> 10, distance |-> 0], [x |-> 13, y |-> 14, distance |-> 25] >>

\* C26: while gameOver is true the simulation is frozen: no frame and no key
\* event that leaves gameOver true changes the ship, the bullets, the
\* asteroids, score, lives, canShoot or shootCooldown, whatever keys are
\* held; and the only step that leaves the game-over state is a keydown of R,
\* which resets the game.
C26_FrozenWhileOver ==
    /\ [][gameOver /\ gameOver' =>
             UNCHANGED << ship, bullets, asteroids, score, lives, canShoot, shootCooldown >>]_vars
    /\ [][gameOver /\ ~gameOver' =>
             keys'["r"] /\ keyEvents' = keyEvents + 1 /\ resets' = resets + 1]_vars

\* the spacebar went down before the game was over and is still down, and a
\* frame has passed since the game ended (the clock of the frames is ahead of
\* the simulated time by more than the offset of start())
C26_HeldAfterTheEnd ==
    /\ gameOver
    /\ keys[" "] /\ press.held
    /\ lastTime - simTime >= Seconds(1, 8) + 3

\* C27 as stated: the cooldown separates any two shots: for every sequence of
\* spacebar events and frames, an update that fires a bullet starts at least
\* 0.25 s of simulated time after the start of the update that fired the
\* bullet before it.
C27_ShotsApart ==
    [][lastTime' # lastTime /\ obs'.ran /\ obs'.fired /\ press.last >= 0 =>
          simTime - press.last >= ShootCooldown]_vars

\* C28: an update fires at most one bullet; and while the spacebar has been
\* down ever since the last shot, an update of the running game fires exactly
\* when the cooldown has reached 0 in an update before it, which is when the
\* deltaTime accumulated since the start of the update of that shot has
\* reached 0.25 s.
C28_AutoFire ==
    [][lastTime' # lastTime /\ obs'.ran =>
          /\ Len(SelectSeq(bullets', LAMBDA b : b.lifetime = BulletLifetime - (lastTime' - lastTime)))
                <= 1
          /\ Len(bullets') <= Len(bullets) + 1
          /\ obs'.fired => Len(obs'.shot) = 1
          /\ press.auto /\ keys[" "] =>
                /\ obs'.fired <=> shootCooldown <= 0
                /\ shootCooldown <= 0 <=> simTime - press.last >= ShootCooldown]_vars

\* the spacebar held since the first shot, and the second shot fired: the
\* first two bullets of the game, fired by updates that start at least 0.25 s
\* apart, the second in the update after the one that ended the cooldown
C28_SecondShotOfHold ==
    /\ press.held /\ press.auto /\ press.shots = 2
    /\ obs.ran /\ obs.fired
    /\ keyEvents = 1
    /\ press.last >= ShootCooldown
    /\ press.last < ShootCooldown + 3

\* the bullets of list that an update of deltaTime dt leaves active
Lasting(list, dt) == SelectSeq(list, LAMBDA b : b.lifetime - dt > 0)

Hits(b, a) == CheckCollision(b.position, BulletRadius, a.position, AsteroidRadius(a.size))

\* the asteroids that the hits of an update have created
Fragments(hits) == UNION {Range(hits[k].fragments) : k \in DOMAIN hits}

\* the number of fragments of the hits i .. Len(hits)
RECURSIVE SumFragments(_, _)
SumFragments(hits, i) ==
    IF i > Len(hits) THEN 0 ELSE Len(hits[i].fragments) + SumFragments(hits, i + 1)

\* the bullets after the filter of an update of deltaTime dt: those of list
\* that last, moved, and the one the update fires
Filtered(list, shot, dt) ==
    [k \in DOMAIN Lasting(list \o shot, dt) |-> BulletUpdate(Lasting(list \o shot, dt)[k], dt)]

\* C30: within one checkCollisions pass each bullet destroys at most one
\* asteroid and is removed by its hit, and each asteroid is destroyed at most
\* once: the bullets left are bullets of before the pass, as many fewer as there
\* are hits; every asteroid hit was in the array (or is a fragment of an
\* earlier hit of the pass) and overlapped a bullet that is gone; no bullet
\* left overlaps an asteroid that was there throughout the pass (none was
\* skipped); every hit takes one asteroid out of the array; and score grows by
\* the sum of the points of the asteroids destroyed.
C30_OneHitPerBullet ==
    [][lastTime' # lastTime /\ obs'.ran =>
          \E before \in {Filtered(bullets, obs'.shot, lastTime' - lastTime)} :
             /\ Len(bullets') = Len(before) - Len(obs'.hits)
             /\ Range(bullets') \subseteq Range(before)
             /\ \A k \in DOMAIN obs'.hits :
                   /\ \/ \E i \in DOMAIN asteroids :
                            /\ asteroids[i].size = obs'.hits[k].size
                            /\ AsteroidUpdate(asteroids[i], lastTime' - lastTime).position
                                  = obs'.hits[k].position
                      \/ \E m \in 1 .. k - 1 :
                            \E f \in Range(obs'.hits[m].fragments) :
                               f.size = obs'.hits[k].size /\ f.position = obs'.hits[k].position
                   /\ \E b \in Range(before) \ Range(bullets') : Hits(b, obs'.hits[k])
             /\ obs'.spawned = 0 =>
                   \A b \in Range(bullets') :
                      \A a \in Range(asteroids') \ Fragments(obs'.hits) : ~Hits(b, a)
             /\ obs'.spawned = 0 =>
                   Len(asteroids') = Len(asteroids) + SumFragments(obs'.hits, 1) - Len(obs'.hits)
             /\ score' - score = SumPoints(obs'.hits, 1)]_vars

\* two bullets, fired by two taps of the spacebar, have hit in one pass: both
\* are gone, two asteroids are destroyed, the second a fragment of the first
\* or another asteroid, and score has grown by the points of both
C30_TwoHitsInOnePass ==
    /\ obs.ran
    /\ Len(obs.hits) = 2
    /\ bullets = << >>
    /\ score = obs.score0 + SumPoints(obs.hits, 1)

\* the points still to be earned from an asteroid of a size: its own and
\* those of the fragments it breaks into
Worth(size) == CASE size = "large" -> 520 [] size = "medium" -> 250 [] size = "small" -> 100

\* the hits it takes to clear an asteroid of a size with its fragments
HitsLeft(size) == CASE size = "large" -> 7 [] size = "medium" -> 3 [] size = "small" -> 1

RECURSIVE SumWorth(_, _)
SumWorth(list, i) ==
    IF i > Len(list) THEN 0 ELSE Worth(list[i].size) + SumWorth(list, i + 1)

RECURSIVE SumHitsLeft(_, _)
SumHitsLeft(list, i) ==
    IF i > Len(list) THEN 0 ELSE HitsLeft(list[i].size) + SumHitsLeft(list, i + 1)

\* the large asteroids spawned in the waves i .. Len(sizes)
RECURSIVE SumWaves(_, _)
SumWaves(sizes, i) == IF i > Len(sizes) THEN 0 ELSE sizes[i] + SumWaves(sizes, i + 1)

\* C31: at every frame boundary score plus the worth of the asteroids in the
\* field (520 for a large, 250 for a medium, 100 for a small one) is 520 times
\* the number of large asteroids spawned since the last reset; every hit of an
\* update takes one from the hits left to clear the field (7 for a large, 3
\* for a medium, 1 for a small asteroid), a wave of n asteroids is spawned
\* exactly when none is left and adds 7 n; the first wave has 5 asteroids and
\* every later wave 7.
C31_ScoreAccounting ==
    /\ [](score + SumWorth(asteroids, 1) = 520 * SumWaves(waves, 1))
    /\ [](waves[1] = 5 /\ \A i \in 2 .. Len(waves) : waves[i] = 7)
    /\ [][lastTime' # lastTime /\ obs'.ran =>
             /\ SumHitsLeft(asteroids', 1) =
                   SumHitsLeft(asteroids, 1) - Len(obs'.hits) + 7 * obs'.spawned
             /\ obs'.spawned > 0 <=> SumHitsLeft(asteroids, 1) = Len(obs'.hits)
             /\ obs'.spawned > 0 => SumHitsLeft(asteroids', 1) = 7 * obs'.spawned]_vars

\* C31 witness: the last asteroid of the first wave was hit, 7 asteroids came,
\* and a large one of them has just been hit
C31_HitInSecondWave ==
    /\ obs.ran
    /\ waves = << 5, 7 >>
    /\ Len(obs.hits) = 1 /\ obs.hits[1].size = "large"
    /\ score = 5 * 520 + 20
    /\ Len(asteroids) = 8

\* the asteroids an asteroid of a size can still become: itself, or the small
\* ones it breaks into
SmallOnes(size) == CASE size = "large" -> 4 [] size = "medium" -> 2 [] size = "small" -> 1

RECURSIVE SumSmallOnes(_, _)
SumSmallOnes(list, i) ==
    IF i > Len(list) THEN 0 ELSE SmallOnes(list[i].size) + SumSmallOnes(list, i + 1)

\* C32: after construction, after reset and at the end of every update, the
\* one that ends the game included, asteroids holds at least 1 and at most 28
\* asteroids: the field is refilled in the update that empties it, and what
\* is in it comes from the at most 7 large asteroids of the last wave, each
\* of which becomes at most 4 small ones.
C32_FieldNeverEmpty ==
    /\ 1 <= Len(asteroids)
    /\ Len(asteroids) <= 28
    /\ Len(asteroids) <= SumSmallOnes(asteroids, 1)
    /\ SumSmallOnes(asteroids, 1) <= 4 * waves[Len(waves)]
    /\ waves[Len(waves)] <= 7

\* C32 witness: the update that destroyed the last asteroid of the first wave
\* has left the 7 asteroids of the second wave
C32_FieldRefilled ==
    /\ obs.ran
    /\ Len(obs.hits) = 1 /\ obs.hits[1].size = "small"
    /\ obs.spawned = 7
    /\ waves = << 5, 7 >>
    /\ Len(asteroids) = 7

\* the distance of p and q is at least limit, a whole number of position units
Apart(p, q, limit) ==
    \/ Abs(p.x - q.x) >= limit
    \/ Abs(p.y - q.y) >= limit
    \/ (p.x - q.x) * (p.x - q.x) + (p.y - q.y) * (p.y - q.y) >= limit * limit

\* every asteroid of list is at 150 or more from the ship s, and the ship
\* overlaps none
SpawnedClear(list, s) ==
    \A i \in DOMAIN list :
       /\ Apart(list[i].position, s.position, Px(150))
       /\ Apart(list[i].position, s.position, Px(10 + 40))

\* C33: every asteroid that spawnAsteroids creates, at construction, at
\* reset and at a new wave, is at a distance of 150 or more from the position
\* the ship has then, so the ship overlaps none of them; the update that
\* spawns a wave takes no life.
C33_SpawnedAwayFromShip ==
    /\ [](~started => SpawnedClear(asteroids, ship))
    /\ [][resets' # resets => SpawnedClear(asteroids', ship')]_vars
    /\ [][lastTime' # lastTime /\ obs'.spawned > 0 =>
             /\ Len(asteroids') = obs'.spawned
             /\ SpawnedClear(asteroids', ship')
             /\ ~obs'.lifeLost /\ lives' = lives]_vars

\* C33 witness: a wave was spawned around the ship at rest in the centre; the
\* candidate at 22 from the ship was passed over, the one at exactly 150 taken
C33_CandidatePassedOver ==
    /\ obs.ran
    /\ obs.spawned = 7
    /\ ship.position = Vector2D(Px(400), Px(300))
    /\ \E i \in DOMAIN asteroids : asteroids[i].position = Vector2D(Px(550), Px(300))
    /\ \A i \in DOMAIN asteroids : asteroids[i].position # Vector2D(Px(420), Px(310))

\* C34: a gameLoop call whose deltaTime is 0.1 s or more runs no update: it
\* leaves the ship, the bullets, the asteroids, score, lives, gameOver, the
\* gun and its timer, the keys and the page as they are and changes only
\* lastTime (and requests the next frame); a call with a smaller deltaTime
\* is not dropped; and the deltaTime of every update is the time since the
\* call before, dropped or not.
C34_LongFramesDropped ==
    /\ [][lastTime' # lastTime /\ started /\ 10 * (lastTime' - lastTime) >= 32 =>
             /\ skipped' = skipped + 1
             /\ ~obs'.ran
             /\ UNCHANGED << ship, bullets, asteroids, score, lives, gameOver, canShoot,
                             shootCooldown, keys, scoreText, livesText, finalScoreText,
                             screenHidden, simTime, lastLoss, waves >>]_vars
    /\ [][skipped' # skipped =>
             lastTime' # lastTime /\ 10 * (lastTime' - lastTime) >= 32]_vars
    /\ [][lastTime' # lastTime /\ started /\ ~gameOver
             /\ 10 * (lastTime' - lastTime) < 32 =>
                obs'.ran /\ simTime' = simTime + (lastTime' - lastTime)]_vars

\* C34 witness: the spacebar went down, the next frame came after 0.125 s and
\* was dropped, and the frame after it, 3/32 s later, has fired the bullet in
\* an update of 3/32 s
C34_FiredAfterDroppedFrame ==
    /\ skipped = 1
    /\ obs.ran /\ obs.fired
    /\ Len(bullets) = 1
    /\ simTime = 3
    /\ lastTime = Seconds(1, 8) + 4 + 3

\* the calls on a Ship that calc keeps
ShipOps == {"Ship", "thrust", "rotate", "update", "respawn"}

\* velocity.magnitude() of a ship in rounded numbers
Speed(s) == MagnitudeRounded(s.velocity)

\* what forward thrust adds for the ship s in deltaTime dt, and its half in
\* the opposite direction
ForwardThrust(s, dt) ==
    MultiplyRounded(DirectionRounded(s.rotation), Times(Number(300), DeltaTime(dt)))
HalfOpposite(v) == Vector2D(Negate(Halved(v.x)), Negate(Halved(v.y)))

\* the parts of C35 on reverse thrust and on update
ThrustAndUpdate ==
    /\ calc.op = "thrust" /\ calc.forward => calc.added = ForwardThrust(calc.before, calc.deltaTime)
    /\ calc.op = "thrust" /\ ~calc.forward =>
          calc.added = HalfOpposite(ForwardThrust(calc.before, calc.deltaTime))
    /\ calc.op = "update" => AtMost(Speed(calc.ship), Speed(calc.before))
    /\ calc.op = "rotate" => calc.ship.velocity = calc.before.velocity
    /\ calc.op = "respawn" => Speed(calc.ship) = Zero

\* C35 as stated: after any sequence of thrust, rotate, update and respawn
\* the magnitude of ship.velocity is at most 400; reverse thrust adds half of
\* what forward thrust adds, in the opposite direction; an update never
\* increases the speed.
C35_SpeedAtMost400 ==
    calc.op \in ShipOps =>
        /\ AtMost(Speed(calc.ship), Number(400))
        /\ ThrustAndUpdate

\* C35 amended: the magnitude of ship.velocity is at most 400 up to the
\* rounding of the numbers: it exceeds 400 by less than 400 * 2^(3 - p) for
\* numbers of p binary digits (53 in JavaScript); reverse thrust adds exactly
\* half of what forward thrust adds, in the opposite direction; an update
\* never increases the speed.
C35_SpeedAtMost400Rounded ==
    calc.op \in ShipOps =>
        /\ \/ AtMost(Speed(calc.ship), Number(400))
           \/ Closer(Speed(calc.ship), Number(400), 400, 3)
        /\ ThrustAndUpdate

\* C35 witness: a thrust took the speed above 400, the velocity was scaled
\* down, and its magnitude is still above 400
C35_ScaledDownAboveMax ==
    /\ calc.op = "thrust"
    /\ Greater(MagnitudeRounded(AddRounded(calc.before.velocity, calc.added)), Number(400))
    /\ calc.ship.velocity # AddRounded(calc.before.velocity, calc.added)
    /\ Greater(Speed(calc.ship), Number(400))

\* the game when the last loop of checkCollisions starts, in the update of
\* deltaTime dt that draws dirs
BeforeShipLoop(g, dt, dirs) ==
    Then(Advance(g, dt), LAMBDA h : BulletLoop(h, Len(h.bullets), Len(h.asteroids), dirs))

\* the step is an update that costs a life and calls respawn
RespawnStep == lastLoss' # lastLoss /\ lastLoss' >= 0 /\ ~gameOver'

\* C36: at every frame boundary ship.invulnerable implies
\* ship.invulnerableTime > 0; the ship of a new game (construction and
\* reset) is not invulnerable; respawn puts the ship at the centre of the
\* canvas with velocity zero and rotation 0 and leaves score, lives, bullets
\* and asteroids as they are when it is called.
C36_InvulnerableWhileTimed ==
    /\ ~ship.invulnerable
    /\ [](ship.invulnerable => ship.invulnerableTime > 0)
    /\ [][resets' # resets => ~ship'.invulnerable]_vars
    /\ [][RespawnStep =>
            /\ ship'.position = Centre
            /\ ship'.velocity = Vector2D(0, 0)
            /\ ship'.rotation = 0
            /\ \E dirs \in FragmentDraws(Game, simTime' - simTime) :
               \E h \in {BeforeShipLoop(Game, simTime' - simTime, dirs)} :
                  /\ score' = h.score
                  /\ lives' = h.lives - 1
                  /\ bullets' = h.bullets
                  /\ asteroids' = h.asteroids]_vars

\* C36 witness: a life was lost with the key w down, a bullet in flight and
\* the ship turned, and the ship is at the centre at rest, invulnerable
C36_RespawnedUnderThrust ==
    /\ obs.ran
    /\ obs.lifeLost
    /\ ~gameOver
    /\ keys["w"]
    /\ ship.position = Centre
    /\ ship.velocity = Vector2D(0, 0)
    /\ ship.invulnerable
    /\ ship.invulnerableTime = InvulnerableTime

\* the value most recently passed to gameState.setPaused, FALSE when it was
\* never called
PausedSet == IF gameState.pausedSet = Undefined THEN FALSE ELSE gameState.pausedSet[1]

\* C37: UIManager.paused and the value most recently passed to
\* gameState.setPaused (FALSE if it was never called) never diverge: for a
\* gameState that has setPaused, no ESC press, update or UIManager.reset()
\* takes a state where the two are equal to a state where they differ.
C37_PausedInStep ==
    [][gameState.setPaused /\ uiManager.paused = PausedSet
          => uiManager'.paused = PausedSet']_vars
====
